---- MODULE Spec2Model ----
(***************************************************************************)
(* A model of the std-dev crate: the weighted cluster lists of lib.rs, the *)
(* MultipleList statistics of main.rs, and of regression.rs the            *)
(* coefficient of determination, the least-squares and Theil-Sen fits, the *)
(* power fit and best_fit.                                                 *)
(*                                                                         *)
(* Numbers.  An f64 that is an input is modelled by its bit pattern: a     *)
(* sign bit and a magnitude (sign-magnitude, as in IEEE-754), so that +0.0 *)
(* and -0.0 are two patterns with one numeric value.  An f64 that is       *)
(* computed is modelled by an exact rational <<num, den>> in lowest terms  *)
(* with den > 0; <<1,0>>, <<-1,0>> and <<0,0>> stand for +inf, -inf and    *)
(* NaN.  Rounding is not modelled.  A usize is modelled with UsizeBits     *)
(* bits; arithmetic on it panics in a debug build and wraps in a release   *)
(* build.                                                                  *)
(***************************************************************************)
EXTENDS Integers, Sequences, FiniteSets, TLC

VARIABLES
    build,      \* "debug" or "release": overflow checks and debug_assert on or off
    list,       \* OwnedClusterList.list of the current cluster list
    len,        \* OwnedClusterList.len, the cached total weight
    src,        \* the cluster list the last operation was applied to
    op,         \* the last operation and its argument
    out,        \* what the last operation returned besides the list
    panicked,   \* the last operation panicked: the process is gone
    det         \* the call made of regression.rs: its arguments and its result

vars == <<build, list, len, src, op, out, panicked, det>>

(***************************************************************************)
(* Bounds of the model.                                                    *)
(***************************************************************************)
MaxClusters == 3        \* clusters of an input list
MaxWeight == 5          \* total weight of an input list of the statistics
MaxSplitWeight == 4     \* total weight of an input list that is split and optimized
MaxSamples == 2         \* predictors, and outcomes, of a regression
MaxPoints == 3          \* points of a fit
MaxDegree == 2          \* degree of a polynomial fit
RobustPoints == 5       \* points of a line with one outlier

\* the sample counts above which best_fit tries the polynomials
SecondDegreeSamples == 15
ThirdDegreeSamples == 50

----------------------------------------------------------------------------
(***************************************************************************)
(* usize                                                                   *)
(***************************************************************************)
UsizeBits == 16
UsizeMod == 2 ^ UsizeBits

\* a - b on usize in a release build (wrapping)
wrapping_sub(a, b) == (a - b) % UsizeMod

----------------------------------------------------------------------------
(***************************************************************************)
(* f64: bit patterns of the inputs                                         *)
(***************************************************************************)
SignBit == 16

\* f64::to_bits, and the numeric value of a bit pattern
PosZero == 0
NegZero == SignBit
Num(b) == IF b >= SignBit THEN 0 - (b - SignBit) ELSE b

\* the bit patterns the inputs are drawn from: +0.0, -0.0, 1.0, 2.0
F64Values == {PosZero, NegZero, 1, 2}

\* the key a hash map would use if it compared the numbers, not the bits
key_numeric(v) == Num(v)

\* F64OrdHash::key
key(v) == v

\* PartialEq for F64OrdHash
F64OrdHash_eq(a, b) == key(a) = key(b)

----------------------------------------------------------------------------
(***************************************************************************)
(* f64: computed values, as exact rationals                                *)
(***************************************************************************)
Abs(x) == IF x < 0 THEN 0 - x ELSE x
Sgn(x) == IF x < 0 THEN 0 - 1 ELSE IF x > 0 THEN 1 ELSE 0

RECURSIVE Gcd(_, _)
Gcd(a, b) == IF b = 0 THEN a ELSE Gcd(b, a % b)

NaN == <<0, 0>>
Inf(s) == <<s, 0>>
IsNaN(q) == q = NaN
IsInf(q) == q[2] = 0 /\ q[1] # 0
IsFinite(q) == q[2] > 0

\* n/d in lowest terms; x/0 is an infinity of x's sign and 0/0 is NaN
Rat(n, d) ==
    IF d = 0 THEN <<Sgn(n), 0>>
    ELSE LET g == Gcd(Abs(n), Abs(d))
             s == Sgn(d)
         IN  <<(s * n) \div g, (s * d) \div g>>

F(n) == <<n, 1>>
\* a Vec<f64> of whole numbers (SubSeq makes the values be computed once)
Floats(values) == SubSeq([i \in 1..Len(values) |-> F(values[i])], 1, Len(values))
f64_of(v) == F(Num(v))

f64_add(p, q) ==
    IF IsNaN(p) \/ IsNaN(q) THEN NaN
    ELSE IF IsInf(p) /\ IsInf(q) THEN (IF p = q THEN p ELSE NaN)
    ELSE IF IsInf(p) THEN p
    ELSE IF IsInf(q) THEN q
    ELSE Rat(p[1] * q[2] + q[1] * p[2], p[2] * q[2])

f64_neg(p) == <<0 - p[1], p[2]>>
f64_sub(p, q) == f64_add(p, f64_neg(q))

f64_mul(p, q) ==
    IF IsNaN(p) \/ IsNaN(q) THEN NaN
    ELSE IF IsInf(p) \/ IsInf(q)
         THEN (IF p[1] = 0 \/ q[1] = 0 THEN NaN ELSE Inf(Sgn(p[1]) * Sgn(q[1])))
    ELSE Rat(p[1] * q[1], p[2] * q[2])

f64_div(p, q) ==
    IF IsNaN(p) \/ IsNaN(q) THEN NaN
    ELSE IF IsInf(p) THEN (IF IsInf(q) THEN NaN
                           ELSE Inf(p[1] * (IF q[1] < 0 THEN 0 - 1 ELSE 1)))
    ELSE IF IsInf(q) THEN F(0)
    ELSE Rat(p[1] * q[2], p[2] * q[1])

\* f64::powi
RECURSIVE powi(_, _)
powi(q, n) == IF n = 0 THEN F(1) ELSE f64_mul(q, powi(q, n - 1))

\* f64::sqrt is kept symbolic: the root of a rational is in general no rational
f64_sqrt(q) == <<"sqrt", q>>

\* Option<f64>
None == <<>>
Some(x) == <<x>>

----------------------------------------------------------------------------
(***************************************************************************)
(* Cluster lists                                                           *)
(***************************************************************************)
\* type Cluster = (f64, usize)
Cluster(v, count) == <<v, count>>

\* ClusterList::size: the sum of the counts
RECURSIVE size_from(_, _)
size_from(l, i) == IF i > Len(l) THEN 0 ELSE l[i][2] + size_from(l, i + 1)
size(l) == size_from(l, 1)


\* the list as the flat sequence of observations it stands for
RECURSIVE Flat(_)
Flat(l) ==
    IF l = <<>> THEN <<>>
    ELSE [i \in 1..l[1][2] |-> l[1][1]] \o Flat(Tail(l))

CountsPositive(l) == \A i \in 1..Len(l) : l[i][2] >= 1
Sorted(l) == \A i \in 1..(Len(l) - 1) : Num(l[i][1]) <= Num(l[i + 1][1])

\* what an operation returns: a value, or a panic that ends the process
Ok(x) == [panic |-> FALSE, val |-> x]
Panic == [panic |-> TRUE, val |-> <<>>]

\* OwnedClusterList { list, len }
Owned(l, n) == [list |-> l, len |-> n]

\* OwnedClusterList::new and ClusterList::new: len is the sum of the counts
OwnedClusterList_new(l) == Owned(l, size(l))

\* ClusterList::len and ClusterList::is_empty
ClusterList_len(o) == o.len
ClusterList_is_empty(o) == o.list = <<>>

\* a split_start loop that forgets to reduce the count of the boundary cluster
RECURSIVE split_start_whole(_, _, _, _, _)
split_start_whole(l, i, sum, acc, n) ==
    IF i > Len(l) THEN acc
    ELSE LET s == sum + l[i][2]
         IN  IF s >= n THEN Append(acc, l[i])
             ELSE split_start_whole(l, i + 1, s, Append(acc, l[i]), n)

\* ClusterList::split_start and MultipleList::split_start, the loop from cluster i on
RECURSIVE split_start_loop(_, _, _, _, _)
split_start_loop(l, i, sum, acc, n) ==
    IF i > Len(l) THEN acc
    ELSE LET v == l[i][1]
             count == l[i][2]
             s == sum + count
         IN  IF s >= n
             THEN Append(acc, Cluster(v, count - (s - n)))
             ELSE split_start_loop(l, i + 1, s, Append(acc, Cluster(v, count)), n)

\* ClusterList::split_start: debug_assert_eq!(len, size(list)) in a debug build
split_start(o, n, b) ==
    LET taken == split_start_loop(o.list, 1, 0, <<>>, n)
    IN  IF b = "debug" /\ n # size(taken) THEN Panic
        ELSE Ok(Owned(taken, n))

\* a - b on usize: a panic on overflow in a debug build, wrapping in a release build
usize_sub(a, b, bld) ==
    IF a >= b THEN Ok(a - b)
    ELSE IF bld = "debug" THEN Panic
    ELSE Ok(wrapping_sub(a, b))

\* ClusterList::split_end, the loop from cluster i down
RECURSIVE split_end_loop(_, _, _, _, _, _)
split_end_loop(l, i, sum, acc, n, b) ==
    IF i < 1 THEN Ok(acc)
    ELSE LET v == l[i][1]
             count == l[i][2]
             s == sum + count
         IN  IF s >= n
             THEN LET d == usize_sub(n, s, b)
                      c == IF d.panic THEN Panic ELSE usize_sub(count, d.val, b)
                  IN  IF c.panic THEN Panic
                      ELSE Ok(<<Cluster(v, c.val)>> \o acc)
             ELSE split_end_loop(l, i - 1, s, <<Cluster(v, count)>> \o acc, n, b)

\* ClusterList::split_end: debug_assert_eq!(len, size(list)) in a debug build
split_end(o, n, b) ==
    LET r == split_end_loop(o.list, Len(o.list), 0, <<>>, n, b)
    IN  IF r.panic THEN Panic
        ELSE IF b = "debug" /\ n # size(r.val) THEN Panic
        ELSE Ok(Owned(r.val, n))

\* the orderings of 1..n: the orders a HashMap may iterate in
IterationOrders(n) ==
    {p \in [1..n -> 1..n] : \A i, j \in 1..n : p[i] = p[j] => i = j}

\* ClusterList::optimize_values, the loop: the entry of v's key gets count added,
\* a new entry starts at or_insert(0)
RECURSIVE collect(_, _, _)
collect(l, i, collected) ==
    IF i > Len(l) THEN collected
    ELSE LET v == l[i][1]
             count == l[i][2]
             at == {j \in 1..Len(collected) : key(collected[j][1]) = key(v)}
         IN  IF at = {}
             THEN collect(l, i + 1, Append(collected, Cluster(v, 0 + count)))
             ELSE LET j == CHOOSE j \in at : TRUE
                  IN  collect(l, i + 1,
                              [collected EXCEPT ![j] = Cluster(@[1], @[2] + count)])

\* an optimize_values whose new entries start at or_insert(1)
optimize_values_from_one(o) ==
    LET collected == collect(o.list, 1, <<>>)
        n == Len(collected)
    IN  {Owned([i \in 1..n |-> Cluster(collected[p[i]][1], collected[p[i]][2] + 1)],
               o.len) : p \in IterationOrders(n)}

\* ClusterList::optimize_values: the results it may return, one per iteration
\* order of the HashMap; len is copied from self
optimize_values(o) ==
    LET collected == collect(o.list, 1, <<>>)
        n == Len(collected)
    IN  {Owned([i \in 1..n |-> collected[p[i]]], o.len) : p \in IterationOrders(n)}

\* ClusterList::sum and MultipleList::sum
RECURSIVE sum_from(_, _)
sum_from(l, i) ==
    IF i > Len(l) THEN F(0)
    ELSE f64_add(f64_mul(f64_of(l[i][1]), F(l[i][2])), sum_from(l, i + 1))
ClusterList_sum(l) == sum_from(l, 1)

\* ClusterList::sum_squared_diff and MultipleList::sum_squared_diff
RECURSIVE sum_squared_diff_from(_, _, _)
sum_squared_diff_from(l, i, base) ==
    IF i > Len(l) THEN F(0)
    ELSE LET d == f64_sub(f64_of(l[i][1]), base)
         IN  f64_add(f64_mul(f64_mul(d, d), F(l[i][2])),
                     sum_squared_diff_from(l, i + 1, base))
ClusterList_sum_squared_diff(l, base) == sum_squared_diff_from(l, 1, base)

\* mean_cluster
mean_cluster(o) == f64_div(ClusterList_sum(o.list), F(o.len))

\* StandardDeviationOutput / Output
StandardDeviationOutput(s, m) == [standard_deviation |-> s, mean |-> m]

\* a deviation that divides by n, not by n - 1
deviation_population(l, n, m, b) ==
    Ok([standard_deviation |-> f64_sqrt(f64_div(sum_squared_diff_from(l, 1, m), F(n))),
        mean |-> m])

\* the body shared by standard_deviation_cluster and std_dev: n is values.len()
deviation(l, n, m, b) ==
    LET squared_deviations == ClusterList_sum_squared_diff(l, m)
        n1 == usize_sub(n, 1, b)
    IN  IF n1.panic THEN Panic
        ELSE Ok(StandardDeviationOutput(
                    f64_sqrt(f64_div(squared_deviations, F(n1.val))), m))

\* standard_deviation_cluster
standard_deviation_cluster(o, b) == deviation(o.list, o.len, mean_cluster(o), b)

----------------------------------------------------------------------------
(***************************************************************************)
(* main.rs: MultipleList                                                   *)
(***************************************************************************)
\* MultipleList::len
MultipleList_len(l) == size(l)

\* MultipleList::median, the loop from the cluster at 0-based position pos
RECURSIVE median_loop(_, _, _, _, _)
median_loop(l, pos, remaining, target, even) ==
    IF pos >= Len(l) THEN Ok(F(0))
    ELSE LET v == l[pos + 1][1]
             count == l[pos + 1][2]
             r == remaining - count
         IN  IF r + 1 = target /\ even
             THEN IF pos = 0 THEN Panic
                  ELSE Ok(f64_div(f64_add(f64_of(v), f64_of(l[pos][1])), F(2)))
             ELSE IF r < target \/ (r = target /\ ~even)
             THEN Ok(f64_of(v))
             ELSE median_loop(l, pos + 1, r, target, even)

\* a median whose target is rounded up
MultipleList_median_ceil(l) ==
    LET n == MultipleList_len(l)
    IN  median_loop(l, 0, n, (n + 1) \div 2, n % 2 = 0)

\* MultipleList::median
MultipleList_median(l) ==
    LET n == MultipleList_len(l)
    IN  median_loop(l, 0, n, n \div 2, n % 2 = 0)

\* MultipleList::split_start
MultipleList_split_start(l, n) == split_start_loop(l, 1, 0, <<>>, n)

\* MultipleList::split_end, the loop from cluster i down
RECURSIVE ml_split_end_loop(_, _, _, _, _, _)
ml_split_end_loop(l, i, sum, acc, n, b) ==
    IF i < 1 THEN Ok(acc)
    ELSE LET v == l[i][1]
             count == l[i][2]
             s == sum - count
         IN  IF s <= n
             THEN LET c == usize_sub(count, n - s, b)
                  IN  IF c.panic THEN Panic
                      ELSE Ok(<<Cluster(v, c.val)>> \o acc)
             ELSE ml_split_end_loop(l, i - 1, s, <<Cluster(v, count)>> \o acc, n, b)

\* MultipleList::split_end
MultipleList_split_end(l, n, b) ==
    LET rest == usize_sub(MultipleList_len(l), n, b)
    IN  IF rest.panic THEN Panic
        ELSE ml_split_end_loop(l, Len(l), MultipleList_len(l), <<>>, rest.val, b)

\* std_dev
std_dev(l, b) ==
    LET n == MultipleList_len(l)
    IN  deviation(l, n, f64_div(ClusterList_sum(l), F(n)), b)

\* MedianOutput / PercentilesOutput
MedianOutput(m, lower, higher) ==
    [median |-> m, lower_quadrille |-> lower, higher_quadrille |-> higher]

\* a quartile of main.rs: the median of a half when the half weighs more than 1
half_median(half) ==
    IF MultipleList_len(half) > 1
    THEN LET m == MultipleList_median(half)
         IN  IF m.panic THEN Panic ELSE Ok(Some(m.val))
    ELSE Ok(None)

\* median (the summary of main.rs)
median(l, b) ==
    LET lower_half == MultipleList_split_start(l, MultipleList_len(l) \div 2)
        upper_half == MultipleList_split_end(l, MultipleList_len(l) \div 2, b)
        m == MultipleList_median(l)
        lower == half_median(lower_half)
        higher == IF upper_half.panic THEN Panic ELSE half_median(upper_half.val)
    IN  IF upper_half.panic \/ m.panic \/ lower.panic \/ higher.panic THEN Panic
        ELSE Ok(MedianOutput(m.val, lower.val, higher.val))

----------------------------------------------------------------------------
(***************************************************************************)
(* lib.rs: percentiles_cluster.  percentile::cluster is not among the      *)
(* sources; cluster::median and cluster::percentile_rand follow section    *)
(* 4.1 of the specification: the walk of MultipleList::median with target  *)
(* len * numerator / denominator.  What happens when the averaging branch  *)
(* is taken at the first cluster is left open there: edge names the        *)
(* outcome, a panic or the first cluster's own value.                      *)
(***************************************************************************)
cluster_percentile(o, numerator, denominator, edge) ==
    LET n == o.len
        r == median_loop(o.list, 0, n, (n * numerator) \div denominator,
                         (n * numerator) % denominator = 0)
    IN  IF r.panic /\ edge = "first" /\ o.list # <<>>
        THEN Ok(f64_of(o.list[1][1]))
        ELSE r

\* percentiles_cluster: the quartiles only when values.borrow().len() >= 5
percentiles_cluster(o, edge) ==
    LET lower == IF ClusterList_len(o) >= 5
                 THEN cluster_percentile(o, 1, 4, edge) ELSE Ok(None)
        higher == IF ClusterList_len(o) >= 5
                  THEN cluster_percentile(o, 3, 4, edge) ELSE Ok(None)
        m == cluster_percentile(o, 1, 2, edge)
    IN  IF lower.panic \/ higher.panic \/ m.panic THEN Panic
        ELSE Ok(MedianOutput(m.val,
                             IF ClusterList_len(o) >= 5 THEN Some(lower.val) ELSE None,
                             IF ClusterList_len(o) >= 5 THEN Some(higher.val) ELSE None))

----------------------------------------------------------------------------
(***************************************************************************)
(* regression.rs: Predictive and Determination                             *)
(***************************************************************************)
\* LinearCoefficients { k, m }, two f64
LinearCoefficients(k, m) == [k |-> k, m |-> m]

\* ols::PolynomialCoefficients, the coefficient of the smallest exponent first
PolynomialCoefficients(coefficients) == [coefficients |-> coefficients]

\* the sum of coefficient * predictor^degree from the given degree on
RECURSIVE polynomial_outcome(_, _, _)
polynomial_outcome(coefficients, predictor, degree) ==
    IF degree >= Len(coefficients) THEN F(0)
    ELSE f64_add(f64_mul(powi(F(predictor), degree), coefficients[degree + 1]),
                 polynomial_outcome(coefficients, predictor, degree + 1))

\* Predictive::predict_outcome, of LinearCoefficients and of PolynomialCoefficients
predict_outcome(model, predictor) ==
    IF "coefficients" \in DOMAIN model
    THEN polynomial_outcome(model.coefficients, predictor, 0)
    ELSE f64_add(f64_mul(model.k, F(predictor)), model.m)

Min(a, b) == IF a < b THEN a ELSE b

\* Iterator::sum of a sequence of numbers
RECURSIVE iter_sum(_, _)
iter_sum(xs, i) == IF i > Len(xs) THEN F(0) ELSE f64_add(xs[i], iter_sum(xs, i + 1))

\* Iterator::zip: as many pairs as the shorter of the two has items
zip(xs, ys) == [i \in 1..Min(Len(xs), Len(ys)) |-> <<xs[i], ys[i]>>]

\* Determination::determination
determination(model, predictors, outcomes, n) ==
    LET outs == [i \in 1..Len(outcomes) |-> F(outcomes[i])]
        outcomes_mean == f64_div(iter_sum(outs, 1), F(n))
        pairs == zip(predictors, outcomes)
        residuals == [i \in 1..Len(pairs) |->
                        f64_sub(F(pairs[i][2]), predict_outcome(model, pairs[i][1]))]
        res == iter_sum([i \in 1..Len(residuals) |->
                            f64_mul(residuals[i], residuals[i])], 1)
        tot == iter_sum([i \in 1..Len(outs) |->
                            LET diff == f64_sub(outs[i], outcomes_mean)
                            IN  f64_mul(diff, diff)], 1)
    IN  Ok(f64_sub(F(1), f64_div(res, tot)))

\* Determination::determination_slice: assert_eq! on the two lengths
determination_slice(model, predictors, outcomes) ==
    IF Len(predictors) # Len(outcomes) THEN Panic
    ELSE determination(model, predictors, outcomes, Len(predictors))

----------------------------------------------------------------------------
(***************************************************************************)
(* Inputs                                                                  *)
(***************************************************************************)
\* the lists of the examples of the specification
ExampleLists ==
    {<<Cluster(1, 1), Cluster(2, 1), Cluster(3, 1)>>,
     <<Cluster(2, 1), Cluster(4, 1), Cluster(4, 1), Cluster(4, 1),
       Cluster(5, 1), Cluster(5, 1), Cluster(7, 1), Cluster(9, 1)>>}

\* every list of at most k clusters with counts >= 1 and a total weight of at most w
RECURSIVE BoundedLists(_, _)
BoundedLists(k, w) ==
    IF k = 0 THEN {<<>>}
    ELSE {<<>>} \cup
         UNION {{<<Cluster(v, c)>> \o t : t \in BoundedLists(k - 1, w - c)} :
                  v \in F64Values, c \in 1..w}

StatLists == BoundedLists(MaxClusters, MaxWeight) \cup ExampleLists
SplitLists == BoundedLists(MaxClusters, MaxSplitWeight) \cup ExampleLists

Builds == {"debug", "release"}

\* the operations go on while the list stays within the bounds
InBounds ==
    /\ ~panicked
    /\ \/ Len(list) <= MaxClusters /\ size(list) <= MaxSplitWeight
       \/ list \in ExampleLists

\* the list is as OwnedClusterList::new built it
Fresh == ~panicked /\ op.name = "new"

NoOut == <<>>
NoDet == [name |-> "none"]
Op(name, n) == [name |-> name, n |-> n]

----------------------------------------------------------------------------
(***************************************************************************)
(* The cluster lists as a state machine                                    *)
(***************************************************************************)
\* the process starts with OwnedClusterList::new(l), or ClusterList::new(&l), of
\* an input list l
InitWith(lists) ==
    /\ build \in Builds
    /\ \E l \in lists :
          /\ list = OwnedClusterList_new(l).list
          /\ len = OwnedClusterList_new(l).len
    /\ src = Owned(<<>>, 0)
    /\ op = Op("new", 0)
    /\ out = NoOut
    /\ panicked = FALSE
    /\ det = NoDet

Init == InitWith(SplitLists)

\* the current list as an OwnedClusterList, and as the ClusterList borrow() gives
Self == Owned(list, len)

\* an operation that returns a new OwnedClusterList, or panics
Returns(name, n, r) ==
    /\ src' = Self
    /\ op' = Op(name, n)
    /\ out' = NoOut
    /\ panicked' = r.panic
    /\ list' = IF r.panic THEN list ELSE r.val.list
    /\ len' = IF r.panic THEN len ELSE r.val.len
    /\ UNCHANGED <<build, det>>

\* an operation that reads the list and returns a value, or panics
Reports(name, n, r) ==
    /\ src' = Self
    /\ op' = Op(name, n)
    /\ out' = IF r.panic THEN NoOut ELSE r.val
    /\ panicked' = r.panic
    /\ UNCHANGED <<build, list, len, det>>

\* self.borrow().split_start(n)
SplitStart ==
    /\ InBounds
    /\ \E n \in 0..(size(list) + 1) : Returns("split_start", n, split_start(Self, n, build))

\* self.borrow().split_end(n)
SplitEnd ==
    /\ InBounds
    /\ \E n \in 0..(size(list) + 1) : Returns("split_end", n, split_end(Self, n, build))

\* self.borrow().optimize_values()
OptimizeValues ==
    /\ InBounds
    /\ \E r \in optimize_values(Self) :
          Returns("optimize_values", IF op.name = "optimize_values" THEN 1 ELSE 0, Ok(r))

\* MultipleList::new(&list).split_start(n)
MlSplitStart ==
    /\ Fresh
    /\ \E n \in 0..(size(list) + 1) :
          Reports("MultipleList::split_start", n, Ok(MultipleList_split_start(list, n)))

\* MultipleList::new(&list).split_end(n)
MlSplitEnd ==
    /\ Fresh
    /\ \E n \in 0..(size(list) + 1) :
          Reports("MultipleList::split_end", n, MultipleList_split_end(list, n, build))

Next ==
    \/ SplitStart
    \/ SplitEnd
    \/ OptimizeValues
    \/ MlSplitStart
    \/ MlSplitEnd

Spec == Init /\ [][Next]_vars

----------------------------------------------------------------------------
(***************************************************************************)
(* The statistics of a list, each applied to a list as new built it        *)
(***************************************************************************)
\* mean_cluster and standard_deviation_cluster of self.borrow()
StandardDeviationCluster ==
    /\ Fresh
    /\ Reports("standard_deviation_cluster", 0, standard_deviation_cluster(Self, build))

\* percentiles_cluster(&mut self)
PercentilesCluster ==
    /\ Fresh
    /\ \E edge \in {"panic", "first"} :
          Reports("percentiles_cluster", 0, percentiles_cluster(Self, edge))

\* MultipleList::new(&list).median()
Median ==
    /\ Fresh
    /\ Reports("MultipleList::median", 0, MultipleList_median(list))

\* std_dev(MultipleList::new(&list))
StdDev ==
    /\ Fresh
    /\ Reports("std_dev", 0, std_dev(list, build))

\* median(MultipleList::new(&list)), the summary of main.rs
MedianSummary ==
    /\ Fresh
    /\ Reports("median", 0, median(list, build))

NextStats ==
    \/ StandardDeviationCluster
    \/ PercentilesCluster
    \/ Median
    \/ StdDev
    \/ MedianSummary

InitStats == InitWith(StatLists)

SpecStats == InitStats /\ [][NextStats]_vars

----------------------------------------------------------------------------
(***************************************************************************)
(* The coefficient of determination of a linear model, one call            *)
(***************************************************************************)
SampleValues == 0..2
Samples == UNION {[1..n -> SampleValues] : n \in 0..MaxSamples}
Models == {LinearCoefficients(F(k), F(m)) : k \in 0..1, m \in 0..1}

Call(name, model, predictors, outcomes, n, r) ==
    [name |-> name, model |-> model, predictors |-> predictors,
     outcomes |-> outcomes, len |-> n, panic |-> r.panic,
     r2 |-> IF r.panic THEN NaN ELSE r.val]

InitDet ==
    /\ build \in Builds
    /\ list = <<>>
    /\ len = 0
    /\ src = Owned(<<>>, 0)
    /\ op = Op("new", 0)
    /\ out = NoOut
    /\ panicked = FALSE
    /\ det = NoDet

\* model.determination(predictors.into_iter(), outcomes.into_iter(), n)
DeterminationCall ==
    /\ det = NoDet
    /\ \E model \in Models, predictors \in Samples, outcomes \in Samples,
          n \in 0..MaxSamples :
          det' = Call("determination", model, predictors, outcomes, n,
                      determination(model, predictors, outcomes, n))
    /\ UNCHANGED <<build, list, len, src, op, out, panicked>>

\* model.determination_slice(&predictors, &outcomes)
DeterminationSliceCall ==
    /\ det = NoDet
    /\ \E model \in Models, predictors \in Samples, outcomes \in Samples :
          det' = Call("determination_slice", model, predictors, outcomes,
                      Len(predictors),
                      determination_slice(model, predictors, outcomes))
    /\ UNCHANGED <<build, list, len, src, op, out, panicked>>

NextDet ==
    \/ DeterminationCall
    \/ DeterminationSliceCall

SpecDet == InitDet /\ [][NextDet]_vars

----------------------------------------------------------------------------
(***************************************************************************)
(* nalgebra::DMatrix over f64, as far as ols::polynomial uses it            *)
(***************************************************************************)
\* a panic together with the place that raised it
PanicAt(where) == [panic |-> TRUE, val |-> where]

\* a matrix of nrows x ncols values
DMatrix(nrows, ncols, at) == [nrows |-> nrows, ncols |-> ncols, at |-> at]

transpose(a) ==
    DMatrix(a.ncols, a.nrows, [i \in 1..a.ncols, j \in 1..a.nrows |-> a.at[j, i]])

RECURSIVE dot(_, _, _, _, _)
dot(a, b, i, j, k) ==
    IF k > a.ncols THEN F(0)
    ELSE f64_add(f64_mul(a.at[i, k], b.at[k, j]), dot(a, b, i, j, k + 1))

\* &a * &b
mat_mul(a, b) ==
    DMatrix(a.nrows, b.ncols, [i \in 1..a.nrows, j \in 1..b.ncols |-> dot(a, b, i, j, 1)])

\* the matrix without its row i and its column j
without(a, i, j) ==
    DMatrix(a.nrows - 1, a.ncols - 1,
            [r \in 1..(a.nrows - 1), c \in 1..(a.ncols - 1) |->
                a.at[IF r < i THEN r ELSE r + 1, IF c < j THEN c ELSE c + 1]])

RECURSIVE determinant(_)
RECURSIVE expansion(_, _)
\* the expansion of the determinant along the first row, from column j on
expansion(a, j) ==
    IF j > a.ncols THEN F(0)
    ELSE f64_add(f64_mul(f64_mul(F(IF j % 2 = 1 THEN 1 ELSE 0 - 1), a.at[1, j]),
                         determinant(without(a, 1, j))),
                 expansion(a, j + 1))

determinant(a) == IF a.nrows = 0 THEN F(1) ELSE expansion(a, 1)

\* Matrix::try_inverse: None for a matrix of determinant zero
try_inverse(a) ==
    LET d == determinant(a)
    IN  IF d = F(0) THEN None
        ELSE Some(DMatrix(a.nrows, a.ncols,
                [i \in 1..a.nrows, j \in 1..a.ncols |->
                    f64_div(f64_mul(F(IF (i + j) % 2 = 0 THEN 1 ELSE 0 - 1),
                                    determinant(without(a, j, i))), d)]))

----------------------------------------------------------------------------
(***************************************************************************)
(* regression.rs, mod ols: polynomial and LinearOls                        *)
(***************************************************************************)
\* the closure of polynomial_simple without the clone at row 0 of the columns
\* from 2 on: the iterator goes on where the column before left it
RECURSIVE design_cells_one_pass(_, _, _, _, _, _)
design_cells_one_pass(predictors, n, degree, cell, cursor, cells) ==
    IF cell = n * (degree + 1) THEN Ok(cells)
    ELSE LET column == cell \div n
         IN  IF column = 0
             THEN design_cells_one_pass(predictors, n, degree, cell + 1, cursor,
                                        Append(cells, F(1)))
             ELSE IF cursor >= Len(predictors)
             THEN PanicAt("predictor_iter.next().unwrap()")
             ELSE design_cells_one_pass(predictors, n, degree, cell + 1, cursor + 1,
                                        Append(cells, powi(predictors[cursor + 1], column)))

\* The cells DMatrix::from_fn(len, degree + 1, ..) fills, column after column
\* and row after row within a column, by the closure of polynomial_simple.
\* cursor counts the items predictor_iter has yielded since it was last cloned.
RECURSIVE design_cells(_, _, _, _, _, _)
design_cells(predictors, n, degree, cell, cursor, cells) ==
    IF cell = n * (degree + 1) THEN Ok(cells)
    ELSE LET row == cell % n
             column == cell \div n
             from == IF column >= 2 /\ row = 0 THEN 0 ELSE cursor
         IN  IF column = 0
             THEN design_cells(predictors, n, degree, cell + 1, cursor, Append(cells, F(1)))
             ELSE IF from >= Len(predictors)
             THEN PanicAt("predictor_iter.next().unwrap()")
             ELSE design_cells(predictors, n, degree, cell + 1, from + 1,
                               Append(cells, IF column = 1 THEN predictors[from + 1]
                                             ELSE powi(predictors[from + 1], column)))

\* the design matrix of polynomial_simple
design(predictors, n, degree) ==
    LET cells == design_cells(predictors, n, degree, 0, 0, <<>>)
    IN  IF cells.panic THEN cells
        ELSE Ok(DMatrix(n, degree + 1,
                        [i \in 1..n, j \in 1..(degree + 1) |-> cells.val[(j - 1) * n + i]]))

\* ols::polynomial::polynomial_simple: the coefficients, smallest exponent first
polynomial_simple(predictors, outcomes, n, degree) ==
    LET d == design(predictors, n, degree)
    IN  IF d.panic THEN d
        ELSE IF Len(outcomes) < n THEN PanicAt("DMatrix::from_iterator")
        ELSE LET t == transpose(d.val)
                 y == DMatrix(n, 1, [i \in 1..n, j \in 1..1 |-> outcomes[i]])
                 inverse == try_inverse(mat_mul(t, d.val))
             IN  IF inverse = None THEN PanicAt("try_inverse().unwrap()")
                 ELSE LET result == mat_mul(mat_mul(inverse[1], t), y)
                      IN  Ok([i \in 1..(degree + 1) |-> result.at[i, 1]])

\* ols::polynomial: the debug_assert! is compiled into debug builds only
polynomial(predictors, outcomes, n, degree, b) ==
    IF b = "debug" /\ ~(degree < n)
    THEN PanicAt("degree + 1 must be less than or equal to len")
    ELSE polynomial_simple(predictors, outcomes, n, degree)

\* LinearOls::model with slope and intercept read from the wrong indices
LinearOls_model_swapped(predictors, outcomes, b) ==
    LET coefficients == polynomial(predictors, outcomes, Len(predictors), 1, b)
    IN  IF coefficients.panic THEN coefficients
        ELSE Ok(LinearCoefficients(coefficients.val[1], coefficients.val[2]))

\* <LinearOls as LinearEstimator>::model
LinearOls_model(predictors, outcomes, b) ==
    LET coefficients == polynomial(predictors, outcomes, Len(predictors), 1, b)
    IN  IF coefficients.panic THEN coefficients
        ELSE Ok(LinearCoefficients(coefficients.val[2], coefficients.val[1]))

\* bin/main.rs, the regression subcommand with --order: the points read, then
\* the fit, or a message on stderr and the next round of the main loop
regression_order(values, order, b) ==
    LET n == Len(values)
        x_iter == [i \in 1..n |-> values[i][1]]
        y_iter == [i \in 1..n |-> values[i][2]]
    IN  IF order + 1 > n
        THEN Ok(<<"eprintln", "Order of polynomial is too large; add more datapoints.">>)
        ELSE polynomial(x_iter, y_iter, n, order, b)

----------------------------------------------------------------------------
(***************************************************************************)
(* The least-squares fits, one call                                        *)
(***************************************************************************)
PointValues == 0..2
Slopes == 0..2
Intercepts == 0..1

\* the outcomes of the predictors xs on the line y = k * x + m
OnLine(xs, k, m) == [i \in 1..Len(xs) |-> k * xs[i] + m]

\* the outcomes ys with the first one moved off by one
OffByOne(ys) == [i \in 1..Len(ys) |-> IF i = 1 THEN ys[i] + 1 ELSE ys[i]]

Predictors == UNION {[1..n -> PointValues] : n \in 0..MaxPoints}

\* predictors with outcomes of the same number: points of a line, and points of
\* a line but for the first
Points ==
    UNION {{[predictors |-> xs, outcomes |-> OnLine(xs, k, m)],
            [predictors |-> xs, outcomes |-> OffByOne(OnLine(xs, k, m))]} :
           xs \in Predictors, k \in Slopes, m \in Intercepts}
    \cup {[predictors |-> <<1, 2, 3>>, outcomes |-> <<2, 4, 6>>]}

\* a call of a fit: its name, its arguments and what it returned
Fit(name, args, r) == [name |-> name, args |-> args, panic |-> r.panic, val |-> r.val]

\* a call of ols::polynomial, with the design matrix from_fn built, as far as
\* the call got to build one
PolynomialFit(args, r, d) ==
    [name |-> "polynomial", args |-> args, panic |-> r.panic, val |-> r.val,
     design |-> IF r.panic /\ r.val = "degree + 1 must be less than or equal to len"
                THEN None ELSE Some(d)]

\* ols::polynomial(predictors.into_iter(), outcomes.into_iter(), len, degree)
PolynomialCall ==
    /\ det = NoDet
    /\ \E p \in Points, degree \in 0..MaxDegree, n \in 0..MaxPoints :
          /\ n - Len(p.predictors) \in {0 - 1, 0, 1}
          /\ det' = PolynomialFit([predictors |-> p.predictors, outcomes |-> p.outcomes,
                                   len |-> n, degree |-> degree],
                                  polynomial(Floats(p.predictors), Floats(p.outcomes), n,
                                             degree, build),
                                  design(Floats(p.predictors), n, degree))
    /\ UNCHANGED <<build, list, len, src, op, out, panicked>>

\* LinearOls.model(&predictors, &outcomes)
LinearOlsModel ==
    /\ det = NoDet
    /\ \E p \in Points :
          det' = Fit("LinearOls::model", p,
                     LinearOls_model(Floats(p.predictors), Floats(p.outcomes), build))
    /\ UNCHANGED <<build, list, len, src, op, out, panicked>>

\* std-dev regression --order <order>, on the points read from stdin
RegressionOrder ==
    /\ det = NoDet
    /\ \E p \in Points, order \in 0..MaxDegree :
          det' = Fit("regression --order",
                     [predictors |-> p.predictors, outcomes |-> p.outcomes,
                      order |-> order],
                     regression_order([i \in 1..Len(p.predictors) |->
                                          <<F(p.predictors[i]), F(p.outcomes[i])>>],
                                      order, build))
    /\ UNCHANGED <<build, list, len, src, op, out, panicked>>

NextOls ==
    \/ PolynomialCall
    \/ LinearOlsModel
    \/ RegressionOrder

SpecOls == InitDet /\ [][NextOls]_vars

----------------------------------------------------------------------------
(***************************************************************************)
(* regression.rs, mod theil_sen                                            *)
(***************************************************************************)
\* a < b on f64; false whenever one of the two is NaN
f64_lt(p, q) ==
    IF IsNaN(p) \/ IsNaN(q) THEN FALSE
    ELSE IF IsInf(p) THEN p[1] < 0 /\ q # p
    ELSE IF IsInf(q) THEN q[1] > 0
    ELSE p[1] * q[2] < q[1] * p[2]

\* percentile::median(&mut values).resolve() on F64OrdHash values: the middle
\* one in the order of Ord::cmp, or the mean of the two middle ones. Ord::cmp
\* of F64OrdHash unwraps partial_cmp, which is None for a NaN.
percentile_median(values) ==
    LET n == Len(values)
        sorted == SortSeq(values, f64_lt)
    IN  IF n = 0 THEN PanicAt("median of no values")
        ELSE IF n >= 2 /\ \E i \in 1..n : IsNaN(values[i])
        THEN PanicAt("partial_cmp().unwrap()")
        ELSE IF n % 2 = 1 THEN Ok(sorted[(n + 1) \div 2])
        ELSE Ok(f64_div(f64_add(sorted[n \div 2], sorted[n \div 2 + 1]), F(2)))

\* theil_sen::permutations(s1, s2): ((s1[i], s1[j]), (s2[i], s2[j])) of every
\* i < j, the pairs of the first position first
RECURSIVE permutations(_, _, _, _)
permutations(s1, s2, pos, other) ==
    IF pos > Min(Len(s1), Len(s2)) THEN <<>>
    ELSE IF other > Min(Len(s1), Len(s2)) THEN permutations(s1, s2, pos + 1, pos + 2)
    ELSE <<<<(<<s1[pos], s1[other]>>), (<<s2[pos], s2[other]>>)>>>>
         \o permutations(s1, s2, pos, other + 1)

\* the closure of slow_linear on one item of permutations: the item is bound
\* to the pattern ((x1, y1), (x2, y2))
slope_of(item) ==
    LET x1 == item[1][1]
        y1 == item[1][2]
        x2 == item[2][1]
        y2 == item[2][2]
    IN  f64_div(f64_sub(y1, y2), f64_sub(x1, x2))

\* the candidate slopes of slow_linear, in the order they are collected
slopes_of(predictors, outcomes) ==
    LET items == permutations(predictors, outcomes, 1, 2)
    IN  [i \in 1..Len(items) |-> slope_of(items[i])]

\* theil_sen::slow_linear
slow_linear(predictors, outcomes) ==
    IF Len(predictors) # Len(outcomes) THEN PanicAt("assert_eq!")
    ELSE LET median_slope == percentile_median(slopes_of(predictors, outcomes))
             predictor_median == percentile_median(predictors)
             outcome_median == percentile_median(outcomes)
         IN  IF median_slope.panic THEN median_slope
             ELSE IF predictor_median.panic THEN predictor_median
             ELSE IF outcome_median.panic THEN outcome_median
             ELSE Ok(LinearCoefficients(
                        median_slope.val,
                        f64_sub(outcome_median.val,
                                f64_mul(median_slope.val, predictor_median.val))))

\* the outcomes of the line y = x but for the one at position p, which is v
WithOutlier(xs, p, v) == [i \in 1..Len(xs) |-> IF i = p THEN v ELSE xs[i]]

OutlierValues == {0, 9, 50}

\* predictors 1, 2, .. with outcomes on y = x but for one outlier
RobustInputs ==
    LET xs == [i \in 1..RobustPoints |-> i]
    IN  {[predictors |-> xs, outcomes |-> WithOutlier(xs, p, v)] :
            p \in 1..RobustPoints, v \in OutlierValues}

\* at least two predictors and at least two outcomes of small values
TheilSenInputs ==
    LET values == UNION {[1..n -> PointValues] : n \in 2..MaxPoints}
    IN  {[predictors |-> xs, outcomes |-> ys] : xs \in values, ys \in values}
        \cup RobustInputs

\* a call of a Theil-Sen fit, with the candidate slopes it collected
TheilSenFit(name, p) ==
    LET r == slow_linear(Floats(p.predictors), Floats(p.outcomes))
    IN  [name |-> name, args |-> p, panic |-> r.panic, val |-> r.val,
         slopes |-> IF Len(p.predictors) # Len(p.outcomes) THEN <<>>
                    ELSE slopes_of(Floats(p.predictors), Floats(p.outcomes))]

\* theil_sen::slow_linear(&predictors, &outcomes)
SlowLinearCall ==
    /\ det = NoDet
    /\ \E p \in TheilSenInputs : det' = TheilSenFit("slow_linear", p)
    /\ UNCHANGED <<build, list, len, src, op, out, panicked>>

\* LinearTheilSen.model(&predictors, &outcomes)
LinearTheilSenModel ==
    /\ det = NoDet
    /\ \E p \in TheilSenInputs : det' = TheilSenFit("LinearTheilSen::model", p)
    /\ UNCHANGED <<build, list, len, src, op, out, panicked>>

NextTheilSen ==
    \/ SlowLinearCall
    \/ LinearTheilSenModel

SpecTheilSen == InitDet /\ [][NextTheilSen]_vars

----------------------------------------------------------------------------
(***************************************************************************)
(* regression.rs, mod derived: power and exponential                       *)
(***************************************************************************)
\* Iterator::min over F64OrdHash: Ord::cmp unwraps partial_cmp, which is None
\* as soon as one of the two values is NaN; of equal values the first is kept
RECURSIVE min_from(_, _)
min_from(slice, i) ==
    IF i = Len(slice) THEN slice[i]
    ELSE LET rest == min_from(slice, i + 1)
         IN  IF f64_lt(rest, slice[i]) THEN rest ELSE slice[i]

\* derived::min: None of an empty slice
min(slice) ==
    IF Len(slice) = 0 THEN Ok(None)
    ELSE IF Len(slice) >= 2 /\ \E i \in 1..Len(slice) : IsNaN(slice[i])
    THEN PanicAt("partial_cmp().unwrap()")
    ELSE Ok(Some(min_from(slice, 1)))

\* Option::unwrap on what derived::min returned
unwrap(r) ==
    IF r.panic THEN r
    ELSE IF r.val = None THEN PanicAt("unwrap() on None")
    ELSE Ok(r.val[1])

IsPowerOfTwo(v) == \E l \in 0..30 : v = 2 ^ l

RECURSIVE exponent_of(_)
exponent_of(v) == IF v <= 1 THEN 0 ELSE 1 + exponent_of(v \div 2)

\* the values whose f64::log2 is exact: the powers of two, zero, the negative
\* values and the values that are not finite
ExactLog2(q) ==
    \/ ~IsFinite(q)
    \/ q[1] <= 0
    \/ q[2] = 1 /\ IsPowerOfTwo(q[1])
    \/ q[1] = 1 /\ IsPowerOfTwo(q[2])

\* f64::log2; the inputs of the model are such that it is passed no value
\* whose logarithm is not exact
log2(q) ==
    IF IsNaN(q) THEN NaN
    ELSE IF IsInf(q) THEN (IF q[1] > 0 THEN Inf(1) ELSE NaN)
    ELSE IF q[1] < 0 THEN NaN
    ELSE IF q[1] = 0 THEN Inf(0 - 1)
    ELSE IF q[2] = 1 THEN F(exponent_of(q[1]))
    ELSE F(0 - exponent_of(q[2]))

\* 2.0_f64.powf(q): exact for an integer q, kept symbolic for any other finite q
powf2(q) ==
    IF IsNaN(q) THEN NaN
    ELSE IF IsInf(q) THEN (IF q[1] > 0 THEN Inf(1) ELSE F(0))
    ELSE IF q[2] # 1 THEN <<"powf", F(2), q>>
    ELSE IF q[1] >= 0 THEN F(2 ^ q[1])
    ELSE Rat(1, 2 ^ (0 - q[1]))

PowerCoefficients(k, e, predictor_additive, outcome_additive) ==
    [k |-> k, e |-> e, predictor_additive |-> predictor_additive,
     outcome_additive |-> outcome_additive]

ExponentialCoefficients(k, b, predictor_additive, outcome_additive) ==
    [k |-> k, b |-> b, predictor_additive |-> predictor_additive,
     outcome_additive |-> outcome_additive]

\* Option::unwrap_or
unwrap_or(option, default) == IF option = None THEN default ELSE option[1]

LinearEstimators == {"LinearOls", "LinearTheilSen"}

\* <E as LinearEstimator>::model
estimator_model(estimator, predictors, outcomes, b) ==
    IF estimator = "LinearOls" THEN LinearOls_model(predictors, outcomes, b)
    ELSE slow_linear(predictors, outcomes)

\* *value + additive.unwrap_or(0.0), of every value of a slice
offset(values, additive) ==
    SubSeq([i \in 1..Len(values) |-> f64_add(values[i], unwrap_or(additive, F(0)))],
           1, Len(values))

\* f64::log2 of every value of a slice
log2_of(values) == SubSeq([i \in 1..Len(values) |-> log2(values[i])], 1, Len(values))

\* what a fit on &mut slices leaves: what it returns, the two slices as they
\* are after it, and the values it took the logarithm of
InPlace(r, predictors, outcomes, logarithms_of) ==
    [panic |-> r.panic, val |-> r.val, predictors |-> predictors,
     outcomes |-> outcomes, logarithms_of |-> logarithms_of]

\* derived::power_given_min that offsets the values up to 1 as well
power_given_min_inclusive(predictors, outcomes, predictor_min, outcome_min, estimator, b) ==
    IF Len(predictors) # Len(outcomes)
    THEN InPlace(PanicAt("assert_eq!"), predictors, outcomes, <<>>)
    ELSE IF ~(Len(predictors) > 2)
    THEN InPlace(PanicAt("assert!(predictors.len() > 2)"), predictors, outcomes, <<>>)
    ELSE LET predictor_additive ==
                 IF f64_lt(predictor_min, F(1)) \/ predictor_min = F(1)
                 THEN Some(f64_sub(F(1), predictor_min)) ELSE None
             outcome_additive ==
                 IF f64_lt(outcome_min, F(1)) \/ outcome_min = F(1)
                 THEN Some(f64_sub(F(1), outcome_min)) ELSE None
             preds == offset(predictors, predictor_additive)
             outs == offset(outcomes, outcome_additive)
             log_preds == log2_of(preds)
             log_outs == log2_of(outs)
             coefficients == estimator_model(estimator, log_preds, log_outs, b)
         IN  InPlace(IF coefficients.panic THEN coefficients
                     ELSE Ok(PowerCoefficients(powf2(coefficients.val.m),
                                               coefficients.val.k,
                                               predictor_additive, outcome_additive)),
                     log_preds, log_outs, preds \o outs)

\* derived::power_given_min; the two slices are overwritten with the logarithms
power_given_min(predictors, outcomes, predictor_min, outcome_min, estimator, b) ==
    IF Len(predictors) # Len(outcomes)
    THEN InPlace(PanicAt("assert_eq!"), predictors, outcomes, <<>>)
    ELSE IF ~(Len(predictors) > 2)
    THEN InPlace(PanicAt("assert!(predictors.len() > 2)"), predictors, outcomes, <<>>)
    ELSE LET predictor_additive ==
                 IF f64_lt(predictor_min, F(1))
                 THEN Some(f64_sub(F(1), predictor_min)) ELSE None
             outcome_additive ==
                 IF f64_lt(outcome_min, F(1))
                 THEN Some(f64_sub(F(1), outcome_min)) ELSE None
             preds == offset(predictors, predictor_additive)
             outs == offset(outcomes, outcome_additive)
             log_preds == log2_of(preds)
             log_outs == log2_of(outs)
             coefficients == estimator_model(estimator, log_preds, log_outs, b)
         IN  InPlace(IF coefficients.panic THEN coefficients
                     ELSE Ok(PowerCoefficients(powf2(coefficients.val.m),
                                               coefficients.val.k,
                                               predictor_additive, outcome_additive)),
                     log_preds, log_outs, preds \o outs)

\* derived::power
power(predictors, outcomes, estimator, b) ==
    IF ~(Len(predictors) > 2)
    THEN InPlace(PanicAt("assert!(predictors.len() > 2)"), predictors, outcomes, <<>>)
    ELSE IF ~(Len(outcomes) > 2)
    THEN InPlace(PanicAt("assert!(outcomes.len() > 2)"), predictors, outcomes, <<>>)
    ELSE LET predictor_min == unwrap(min(predictors))
             outcome_min == unwrap(min(outcomes))
         IN  IF predictor_min.panic THEN InPlace(predictor_min, predictors, outcomes, <<>>)
             ELSE IF outcome_min.panic THEN InPlace(outcome_min, predictors, outcomes, <<>>)
             ELSE power_given_min(predictors, outcomes, predictor_min.val,
                                  outcome_min.val, estimator, b)

\* derived::power_ols
power_ols(predictors, outcomes, b) == power(predictors, outcomes, "LinearOls", b)

\* derived::exponential_given_min; the predictors are offset in place and the
\* outcomes are overwritten with the logarithms
exponential_given_min(predictors, outcomes, predictor_min, outcome_min, estimator, b) ==
    IF Len(predictors) # Len(outcomes)
    THEN InPlace(PanicAt("assert_eq!"), predictors, outcomes, <<>>)
    ELSE IF ~(Len(predictors) > 2)
    THEN InPlace(PanicAt("assert!(predictors.len() > 2)"), predictors, outcomes, <<>>)
    ELSE LET predictor_additive ==
                 IF f64_lt(predictor_min, F(1))
                 THEN Some(f64_sub(F(1), predictor_min)) ELSE None
             outcome_additive ==
                 IF f64_lt(outcome_min, F(1))
                 THEN Some(f64_sub(F(1), outcome_min)) ELSE None
             preds == IF predictor_additive # None
                      THEN offset(predictors, predictor_additive)
                      ELSE predictors
             outs == offset(outcomes, outcome_additive)
             log_outs == log2_of(outs)
             coefficients == estimator_model(estimator, preds, log_outs, b)
         IN  InPlace(IF coefficients.panic THEN coefficients
                     ELSE Ok(ExponentialCoefficients(powf2(coefficients.val.m),
                                                     powf2(coefficients.val.k),
                                                     predictor_additive,
                                                     outcome_additive)),
                     preds, log_outs, outs)

\* derived::exponential
exponential(predictors, outcomes, estimator, b) ==
    IF ~(Len(predictors) > 2)
    THEN InPlace(PanicAt("assert!(predictors.len() > 2)"), predictors, outcomes, <<>>)
    ELSE IF ~(Len(outcomes) > 2)
    THEN InPlace(PanicAt("assert!(outcomes.len() > 2)"), predictors, outcomes, <<>>)
    ELSE LET predictor_min == unwrap(min(predictors))
             outcome_min == unwrap(min(outcomes))
         IN  IF predictor_min.panic THEN InPlace(predictor_min, predictors, outcomes, <<>>)
             ELSE IF outcome_min.panic THEN InPlace(outcome_min, predictors, outcomes, <<>>)
             ELSE exponential_given_min(predictors, outcomes, predictor_min.val,
                                        outcome_min.val, estimator, b)

\* what derived::min gives the fits on the slice, as far as it gives a value
least(values) ==
    LET least_value == min(values)
    IN  IF least_value.panic \/ Len(values) = 0 THEN NaN ELSE least_value.val[1]

\* the values of the slice after the offset the fits add
shifted(values) ==
    LET least_value == least(values)
    IN  offset(values, IF f64_lt(least_value, F(1))
                       THEN Some(f64_sub(F(1), least_value)) ELSE None)

\* the logarithm of every value the fit takes the logarithm of is exact, in a
\* slice of the samples
ExactLogs(values) ==
    LET logarithms_of == shifted(values)
    IN  \A i \in 1..Len(values) : ExactLog2(logarithms_of[i])

\* The samples of the power fit: powers of two, so that their logarithms are
\* exact, and the same lowered by one, which brings the least of them to 0 and
\* makes the fit offset them back
PowersOfTwo(exponents, o) ==
    SubSeq([i \in 1..Len(exponents) |-> F(2 ^ exponents[i] - o)], 1, Len(exponents))
PowerInputs ==
    {p \in {[predictors |-> PowersOfTwo(q.predictors, ox),
             outcomes |-> PowersOfTwo(q.outcomes, oy)] :
                q \in {r \in Points : Len(r.predictors) > 0}, ox \in 0..1, oy \in 0..1} :
        ExactLogs(p.predictors) /\ ExactLogs(p.outcomes)}

\* The samples of the exponential fit: the outcomes as those of the power fit
ExponentialInputs ==
    {p \in {[predictors |-> Floats(q.predictors),
             outcomes |-> PowersOfTwo(q.outcomes, oy)] :
                q \in {r \in Points : Len(r.predictors) > 0}, oy \in 0..1} :
        ExactLogs(p.outcomes)}

\* Samples that hold a value that is not finite: f64 has two infinities and
\* NaN, and the text "inf" parses to an f64 as "1" does
NotFinite == {Inf(1), Inf(0 - 1), NaN}
NotFiniteInputs ==
    {[predictors |-> <<x, F(1), F(2)>>, outcomes |-> <<F(1), F(2), F(4)>>] :
        x \in NotFinite}
    \cup {[predictors |-> <<F(1), F(2), F(4)>>, outcomes |-> <<y, F(1), F(2)>>] :
            y \in NotFinite}

\* a call of a fit on &mut slices: its name, its arguments, what it returned
\* and what it left in the slices
FitInPlace(name, args, r) ==
    [name |-> name, args |-> args, panic |-> r.panic, val |-> r.val,
     predictors |-> r.predictors, outcomes |-> r.outcomes, logarithms_of |-> r.logarithms_of]

\* derived::power(&mut predictors, &mut outcomes, &estimator)
PowerCall ==
    /\ det = NoDet
    /\ \E p \in PowerInputs \cup NotFiniteInputs, estimator \in LinearEstimators :
          det' = FitInPlace("power",
                               [predictors |-> p.predictors, outcomes |-> p.outcomes,
                                estimator |-> estimator],
                               power(p.predictors, p.outcomes, estimator, build))
    /\ UNCHANGED <<build, list, len, src, op, out, panicked>>

\* derived::power_ols(&mut predictors, &mut outcomes)
PowerOlsCall ==
    /\ det = NoDet
    /\ \E p \in PowerInputs \cup NotFiniteInputs :
          det' = FitInPlace("power_ols",
                               [predictors |-> p.predictors, outcomes |-> p.outcomes,
                                estimator |-> "LinearOls"],
                               power_ols(p.predictors, p.outcomes, build))
    /\ UNCHANGED <<build, list, len, src, op, out, panicked>>

\* derived::exponential(&mut predictors, &mut outcomes, &estimator)
ExponentialCall ==
    /\ det = NoDet
    /\ \E p \in ExponentialInputs \cup NotFiniteInputs, estimator \in LinearEstimators :
          det' = FitInPlace("exponential",
                               [predictors |-> p.predictors, outcomes |-> p.outcomes,
                                estimator |-> estimator],
                               exponential(p.predictors, p.outcomes, estimator, build))
    /\ UNCHANGED <<build, list, len, src, op, out, panicked>>

NextPower ==
    \/ PowerCall
    \/ PowerOlsCall
    \/ ExponentialCall

SpecPower == InitDet /\ [][NextPower]_vars

----------------------------------------------------------------------------
(***************************************************************************)
(* regression.rs: best_fit                                                 *)
(*                                                                         *)
(* best_fit is modelled on what its calls return: the parameter fits holds, *)
(* for each candidate, whether the call that fits it panics and, if not,   *)
(* the R^2 determination_slice gives the fitted model on the samples (and  *)
(* for the power model its exponent e). The estimator of the linear fits   *)
(* is an argument of best_fit, so these are inputs of it.                  *)
(***************************************************************************)
f64_gt(p, q) == f64_lt(q, p)
f64_ge(p, q) == f64_lt(q, p) \/ (p = q /\ ~IsNaN(p))
f64_abs(p) == <<Abs(p[1]), p[2]>>

\* a % b on f64: the remainder has the sign of a
f64_rem(p, q) ==
    IF IsNaN(p) \/ IsNaN(q) \/ IsInf(p) \/ q = F(0) THEN NaN
    ELSE IF IsInf(q) THEN p
    ELSE LET r == f64_div(p, q)
             truncated == F(Sgn(r[1]) * (Abs(r[1]) \div r[2]))
         IN  f64_sub(p, f64_mul(q, truncated))

LINEAR_BUMP == F(0)
POWER_BUMP == Rat(3, 2)
EXPONENTIAL_BUMP == Rat(13, 10)
THIRD_DEGREE_DISADVANTAGE == Rat(47, 50)

\* DynModel::new
DynModel_new(model) == [model |-> model]

\* the state of best_fit between two candidates: the best so far, the
\* candidates evaluated so far, and the panic that ended it, if any
Evaluation(best, evaluated, panic) == [best |-> best, evaluated |-> evaluated, panic |-> panic]

\* update_best! that replaces the best candidate on a tie as well
update_best_on_tie(st, new, e, weighted) ==
    [st EXCEPT
        !.best = IF st.best # None
                 THEN (IF f64_ge(weighted, st.best[1].weighted)
                       THEN Some([model |-> DynModel_new(new), weighted |-> weighted])
                       ELSE st.best)
                 ELSE Some([model |-> DynModel_new(new), weighted |-> weighted]),
        !.evaluated = Append(@, [model |-> new, e |-> e, weighted |-> weighted])]

\* update_best!($new, $e, $modificator, $err)
update_best(st, new, e, weighted) ==
    [st EXCEPT
        !.best = IF st.best # None
                 THEN (IF f64_gt(weighted, st.best[1].weighted)
                       THEN Some([model |-> DynModel_new(new), weighted |-> weighted])
                       ELSE st.best)
                 ELSE Some([model |-> DynModel_new(new), weighted |-> weighted]),
        !.evaluated = Append(@, [model |-> new, e |-> e, weighted |-> weighted])]

\* a candidate whose fit panics ends best_fit
Evaluate(st, new, fit, weighted) ==
    IF st.panic # None THEN st
    ELSE IF fit.panic THEN [st EXCEPT !.panic = Some(new)]
    ELSE update_best(st, new, fit.certainty, weighted)

\* the multiplier of the power candidate
power_bump(e, certainty) ==
    LET distance_from_zero ==
            f64_add(f64_neg(f64_abs(f64_sub(Rat(1, 2), f64_rem(e, F(1))))), Rat(1, 2))
        first == IF f64_lt(distance_from_zero, Rat(3, 20)) THEN POWER_BUMP ELSE F(1)
        second == IF f64_gt(certainty, Rat(4, 5)) THEN f64_mul(first, EXPONENTIAL_BUMP)
                  ELSE first
    IN  IF f64_gt(certainty, Rat(23, 25)) THEN f64_mul(second, EXPONENTIAL_BUMP) ELSE second

\* the multiplier of the exponential candidate, without the second factor
exponential_bump_once(certainty) ==
    IF f64_gt(certainty, Rat(4, 5)) THEN EXPONENTIAL_BUMP ELSE F(1)

\* the multiplier of the exponential candidate
exponential_bump(certainty) ==
    LET first == IF f64_gt(certainty, Rat(4, 5)) THEN EXPONENTIAL_BUMP ELSE F(1)
    IN  IF f64_gt(certainty, Rat(23, 25)) THEN f64_mul(first, EXPONENTIAL_BUMP) ELSE first

\* the guard of the power and the exponential candidate, with > for >=
no_data_below_one_strict(predictor_min, outcomes_min) ==
    f64_gt(predictor_min, F(1)) /\ f64_gt(outcomes_min, F(1))

\* predictor_min >= 1.0 && outcomes_min >= 1.0
no_data_below_one(predictor_min, outcomes_min) ==
    f64_ge(predictor_min, F(1)) /\ f64_ge(outcomes_min, F(1))

\* best_fit on n samples of the given minima: the DynModel it returns, with the
\* evaluation that led to it
best_fit(n, predictor_min, outcomes_min, fits) ==
    LET start == Evaluation(None, <<>>, None)
        with_power ==
            IF no_data_below_one(predictor_min, outcomes_min)
            THEN Evaluate(start, "power", fits.power,
                          f64_mul(fits.power.certainty,
                                  power_bump(fits.power.e, fits.power.certainty)))
            ELSE start
        with_exponential ==
            IF no_data_below_one(predictor_min, outcomes_min)
            THEN Evaluate(with_power, "exponential", fits.exponential,
                          f64_mul(fits.exponential.certainty,
                                  exponential_bump(fits.exponential.certainty)))
            ELSE with_power
        with_degree_2 ==
            IF n > SecondDegreeSamples
            THEN Evaluate(with_exponential, "degree_2", fits.degree_2,
                          fits.degree_2.certainty)
            ELSE with_exponential
        with_degree_3 ==
            IF n > ThirdDegreeSamples
            THEN Evaluate(with_degree_2, "degree_3", fits.degree_3,
                          f64_mul(fits.degree_3.certainty, THIRD_DEGREE_DISADVANTAGE))
            ELSE with_degree_2
        with_linear ==
            Evaluate(with_degree_3, "linear", fits.linear,
                     f64_add(fits.linear.certainty, LINEAR_BUMP))
    IN  [panic |-> with_linear.panic # None \/ with_linear.best = None,
         val |-> IF with_linear.panic # None THEN with_linear.panic[1]
                 ELSE IF with_linear.best = None THEN "best.unwrap()"
                 ELSE with_linear.best[1].model,
         best |-> with_linear.best,
         evaluated |-> with_linear.evaluated]

\* what best_fit is called on: the number of samples around the thresholds of
\* the polynomials, and minima on both sides of 1
SampleCounts ==
    {3, SecondDegreeSamples, SecondDegreeSamples + 1,
     ThirdDegreeSamples, ThirdDegreeSamples + 1}
Minima == {F(0), F(1)}
Certainties == {NaN, Rat(1, 2), Rat(17, 20), Rat(19, 20)}
Exponents == {F(2), Rat(5, 2), Rat(0 - 21, 10), Rat(0 - 3, 2)}

\* the R^2 of a model whose linear fit the caller's estimator made: such a
\* model may predict worse than the mean of the outcomes does
EstimatorCertainties == Certainties \cup {Rat(0 - 1, 2)}

\* a fit that panics, which also stands for a candidate that is not evaluated
NotFitted == [panic |-> TRUE, certainty |-> NaN, e |-> NaN]
Fitted(certainty, e) == [panic |-> FALSE, certainty |-> certainty, e |-> e]

\* the outcomes of a candidate's fit: of every one if it is evaluated
CandidateFits(evaluated, certainties, exponents) ==
    IF evaluated
    THEN {NotFitted} \cup {Fitted(c, e) : c \in certainties, e \in exponents}
    ELSE {NotFitted}

BestFit(name, args, r) ==
    [name |-> name, args |-> args, panic |-> r.panic, val |-> r.val,
     best |-> r.best, evaluated |-> r.evaluated]

\* best_fit(&predictors, &outcomes, &linear_estimator)
BestFitCall ==
    /\ det = NoDet
    /\ \E n \in SampleCounts, predictor_min \in Minima, outcomes_min \in Minima :
          LET logs == no_data_below_one(predictor_min, outcomes_min)
          IN  \E pow \in CandidateFits(logs, EstimatorCertainties, Exponents),
                 exp \in CandidateFits(logs, EstimatorCertainties, {NaN}),
                 second \in CandidateFits(n > SecondDegreeSamples, Certainties, {NaN}),
                 third \in CandidateFits(n > ThirdDegreeSamples, Certainties, {NaN}),
                 linear \in CandidateFits(TRUE, EstimatorCertainties, {NaN}) :
                 LET fits == [power |-> pow, exponential |-> exp,
                              degree_2 |-> second, degree_3 |-> third,
                              linear |-> linear]
                 IN  det' = BestFit("best_fit",
                                    [n |-> n, predictor_min |-> predictor_min,
                                     outcomes_min |-> outcomes_min, fits |-> fits],
                                    best_fit(n, predictor_min, outcomes_min, fits))
    /\ UNCHANGED <<build, list, len, src, op, out, panicked>>

NextBestFit == BestFitCall

SpecBestFit == InitDet /\ [][NextBestFit]_vars

\* the fit of a candidate on the samples: the model, then its R^2
fit_of(model, predictors, outcomes) ==
    IF model.panic THEN NotFitted
    ELSE LET certainty == determination_slice(model.val, predictors, outcomes)
         IN  IF certainty.panic THEN NotFitted ELSE Fitted(certainty.val, NaN)

\* the fits best_fit_ols makes on samples whose least predictor or least
\* outcome is below 1: the power and the exponential model are not fitted
ols_fits(predictors, outcomes, b) ==
    LET n == Len(predictors)
        degree(d) ==
            LET coefficients == polynomial(Floats(predictors), Floats(outcomes), n, d, b)
            IN  IF coefficients.panic THEN coefficients
                ELSE Ok(PolynomialCoefficients(coefficients.val))
    IN  [power |-> NotFitted,
         exponential |-> NotFitted,
         degree_2 |-> IF n > SecondDegreeSamples
                      THEN fit_of(degree(2), predictors, outcomes) ELSE NotFitted,
         degree_3 |-> IF n > ThirdDegreeSamples
                      THEN fit_of(degree(3), predictors, outcomes) ELSE NotFitted,
         linear |-> fit_of(LinearOls_model(Floats(predictors), Floats(outcomes), b),
                           predictors, outcomes)]

\* best_fit_ols
best_fit_ols(predictors, outcomes, b) ==
    best_fit(Len(predictors), least(Floats(predictors)), least(Floats(outcomes)),
             ols_fits(predictors, outcomes, b))

\* samples for best_fit_ols: a few points, and one more than the second degree
\* asks for, on two or on three distinct predictors
BestFitOlsInputs ==
    LET n == SecondDegreeSamples + 1
        lines(xs) == {[predictors |-> xs, outcomes |-> OnLine(xs, 1, 0)],
                      [predictors |-> xs, outcomes |-> OffByOne(OnLine(xs, 1, 0))]}
    IN  {p \in Points : Len(p.predictors) >= 1 /\
                        (\/ f64_lt(least(Floats(p.predictors)), F(1))
                         \/ f64_lt(least(Floats(p.outcomes)), F(1)))}
        \cup lines([i \in 1..n |-> i % 2])
        \cup lines([i \in 1..n |-> i % 3])

\* best_fit_ols(&mut predictors, &mut outcomes)
BestFitOlsCall ==
    /\ det = NoDet
    /\ \E p \in BestFitOlsInputs :
          det' = BestFit("best_fit_ols",
                         [predictors |-> p.predictors, outcomes |-> p.outcomes,
                          n |-> Len(p.predictors),
                          predictor_min |-> least(Floats(p.predictors)),
                          outcomes_min |-> least(Floats(p.outcomes)),
                          fits |-> ols_fits(p.predictors, p.outcomes, build)],
                         best_fit_ols(p.predictors, p.outcomes, build))
    /\ UNCHANGED <<build, list, len, src, op, out, panicked>>

NextBestFitOls == BestFitOlsCall

SpecBestFitOls == InitDet /\ [][NextBestFitOls]_vars

----------------------------------------------------------------------------
(***************************************************************************)
(* regression.rs: best_fit, the scratch vectors of the power and the       *)
(* exponential fit                                                         *)
(*                                                                         *)
(* The two fits are made by the estimator on copies of the samples. Their  *)
(* R^2 goes through powf of values that are no whole numbers in general,   *)
(* which is not computed here: it is an input, as in the evaluation above. *)
(***************************************************************************)
\* <[f64]>::to_vec
to_vec(slice) == slice

\* a copy_from_slice that leaves the destination as it is
copy_from_slice_skipped(destination, source) == destination

\* destination[..].copy_from_slice(source), of slices of one length
copy_from_slice(destination, source) == source

\* the outcomes of the samples below are no larger than 2 ^ LargestExponent
LargestExponent == 4

\* samples of best_fit without a value below 1: powers of two, the predictors
\* in increasing order
BestFitSlicesInputs ==
    {[predictors |-> SubSeq([i \in 1..Len(p.predictors) |-> 2 ^ p.predictors[i]],
                            1, Len(p.predictors)),
      outcomes |-> SubSeq([i \in 1..Len(p.outcomes) |-> 2 ^ p.outcomes[i]],
                          1, Len(p.outcomes))] :
        p \in {q \in Points :
                  /\ Len(q.predictors) >= 1
                  /\ \A i \in 1..(Len(q.predictors) - 1) :
                         q.predictors[i] < q.predictors[i + 1]
                  /\ \A i \in 1..Len(q.outcomes) : q.outcomes[i] \in 0..LargestExponent}}

\* the R^2 a power or an exponential model has on the samples
EstimatedCertainties == {Rat(1, 2), Rat(19, 20)}

\* best_fit is at the given position
BestFitAt(position) == det.name = "best_fit" /\ det.at = position

\* best_fit up to its guard of the power and the exponential model: the least
\* values, and the scratch vectors copied from the slices. The slices are not
\* empty, so that derived::min(..).unwrap() returns.
BestFitEnter ==
    /\ det = NoDet
    /\ \E p \in BestFitSlicesInputs, estimator \in LinearEstimators :
          LET predictors == Floats(p.predictors)
              outcomes == Floats(p.outcomes)
              logs == no_data_below_one(least(predictors), least(outcomes))
          IN  det' = [name |-> "best_fit",
                      at |-> IF logs THEN "power_given_min" ELSE "polynomial",
                      args |-> [predictors |-> predictors, outcomes |-> outcomes,
                                estimator |-> estimator],
                      samples |-> p,
                      predictors |-> predictors,
                      outcomes |-> outcomes,
                      predictor_min |-> least(predictors),
                      outcomes_min |-> least(outcomes),
                      mod_predictors |-> IF logs THEN to_vec(predictors) ELSE <<>>,
                      mod_outcomes |-> IF logs THEN to_vec(outcomes) ELSE <<>>,
                      handed |-> <<>>,
                      left |-> <<>>,
                      fit |-> NotFitted,
                      st |-> Evaluation(None, <<>>, None)]
    /\ UNCHANGED <<build, list, len, src, op, out, panicked>>

\* best_fit d after a fit r on its scratch vectors: the vectors are as the fit
\* left them, and a panic of the fit ends best_fit
scratch_fit(d, r, candidate) ==
    [d EXCEPT !.fit = r,
              !.mod_predictors = r.predictors,
              !.mod_outcomes = r.outcomes,
              !.left = Append(@, [predictors |-> r.predictors, outcomes |-> r.outcomes]),
              !.st = IF r.panic THEN [@ EXCEPT !.panic = Some(candidate)] ELSE @,
              !.at = IF r.panic THEN "panicked" ELSE candidate]

\* best_fit d about to hand its scratch vectors to a fit
hand(d) ==
    [d EXCEPT !.handed = Append(@, [predictors |-> d.mod_predictors,
                                    outcomes |-> d.mod_outcomes])]

\* let power = derived::power_given_min(&mut mod_predictors, &mut mod_outcomes, ..)
BestFitPowerGivenMin ==
    /\ BestFitAt("power_given_min")
    /\ det' = scratch_fit(hand(det),
                          power_given_min(det.mod_predictors, det.mod_outcomes,
                                          det.predictor_min, det.outcomes_min,
                                          det.args.estimator, build),
                          "power")
    /\ UNCHANGED <<build, list, len, src, op, out, panicked>>

\* update_best!(power, ..) with the R^2 of the power model on the slices, and
\* the scratch vectors copied from the slices again
BestFitPower ==
    /\ BestFitAt("power")
    /\ \E certainty \in EstimatedCertainties :
          det' = [det EXCEPT
                    !.st = Evaluate(@, "power", Fitted(certainty, det.fit.val.e),
                                    f64_mul(certainty,
                                            power_bump(det.fit.val.e, certainty))),
                    !.mod_predictors = copy_from_slice(@, det.predictors),
                    !.mod_outcomes = copy_from_slice(@, det.outcomes),
                    !.at = "exponential_given_min"]
    /\ UNCHANGED <<build, list, len, src, op, out, panicked>>

\* let exponential = derived::exponential_given_min(&mut mod_predictors, ..)
BestFitExponentialGivenMin ==
    /\ BestFitAt("exponential_given_min")
    /\ det' = scratch_fit(hand(det),
                          exponential_given_min(det.mod_predictors, det.mod_outcomes,
                                                det.predictor_min, det.outcomes_min,
                                                det.args.estimator, build),
                          "exponential")
    /\ UNCHANGED <<build, list, len, src, op, out, panicked>>

\* update_best!(exponential, ..) with the R^2 of the exponential model
BestFitExponential ==
    /\ BestFitAt("exponential")
    /\ \E certainty \in EstimatedCertainties :
          det' = [det EXCEPT
                    !.st = Evaluate(@, "exponential", Fitted(certainty, NaN),
                                    f64_mul(certainty, exponential_bump(certainty))),
                    !.at = "polynomial"]
    /\ UNCHANGED <<build, list, len, src, op, out, panicked>>

\* what ols::polynomial returns: a model, unless it panicked
PolynomialModel(coefficients) ==
    IF coefficients.panic THEN coefficients
    ELSE Ok(PolynomialCoefficients(coefficients.val))

\* ols::polynomial(.., degree) of best_fit d, and the R^2 of the polynomial
polynomial_fit(d, degree, b) ==
    fit_of(PolynomialModel(polynomial(d.predictors, d.outcomes, Len(d.predictors),
                                      degree, b)),
           d.samples.predictors, d.samples.outcomes)

\* update_best!(degree_2) and update_best!(degree_3, ..), on enough samples
polynomials(st, n, second, third) ==
    LET with_degree_2 ==
            IF n > SecondDegreeSamples
            THEN Evaluate(st, "degree_2", second, second.certainty)
            ELSE st
    IN  IF n > ThirdDegreeSamples
        THEN Evaluate(with_degree_2, "degree_3", third,
                      f64_mul(third.certainty, THIRD_DEGREE_DISADVANTAGE))
        ELSE with_degree_2

\* best_fit d goes on to the given position with the candidates evaluated so
\* far, unless a fit panicked
proceed(d, st, position) ==
    [d EXCEPT !.st = st, !.at = IF st.panic # None THEN "panicked" ELSE position]

\* the polynomials of degree 2 and 3
BestFitPolynomial ==
    /\ BestFitAt("polynomial")
    /\ det' = proceed(det,
                      polynomials(det.st, Len(det.predictors),
                                  polynomial_fit(det, 2, build),
                                  polynomial_fit(det, 3, build)),
                      "linear_estimator")
    /\ UNCHANGED <<build, list, len, src, op, out, panicked>>

\* let linear = linear_estimator.model(predictors, outcomes), and its R^2
BestFitLinearEstimator ==
    /\ BestFitAt("linear_estimator")
    /\ det' = [det EXCEPT
                 !.fit = fit_of(estimator_model(det.args.estimator, det.predictors,
                                                det.outcomes, build),
                                det.samples.predictors, det.samples.outcomes),
                 !.at = "linear"]
    /\ UNCHANGED <<build, list, len, src, op, out, panicked>>

\* update_best!(linear, ..) and best.unwrap().0
BestFitReturn ==
    /\ BestFitAt("linear")
    /\ LET st == Evaluate(det.st, "linear", det.fit,
                          f64_add(det.fit.certainty, LINEAR_BUMP))
       IN  det' = [det EXCEPT !.st = st,
                              !.at = IF st.panic # None \/ st.best = None
                                     THEN "panicked" ELSE "returned"]
    /\ UNCHANGED <<build, list, len, src, op, out, panicked>>

NextBestFitSlices ==
    \/ BestFitEnter
    \/ BestFitPowerGivenMin
    \/ BestFitPower
    \/ BestFitExponentialGivenMin
    \/ BestFitExponential
    \/ BestFitPolynomial
    \/ BestFitLinearEstimator
    \/ BestFitReturn

SpecBestFitSlices == InitDet /\ [][NextBestFitSlices]_vars

----------------------------------------------------------------------------
(***************************************************************************)
(* lib.rs: F64OrdHash, its Eq, Hash and Ord, and derived::min over it       *)
(***************************************************************************)
\* two of the bit patterns of NaN, one of either sign
NaNBits == {SignBit - 1, 2 * SignBit - 1}

\* f64::from_bits, the value F64OrdHash wraps
from_bits(v) == IF v \in NaNBits THEN NaN ELSE f64_of(v)

\* f64::partial_cmp: None if one of the two is NaN; it compares the numbers,
\* so that -0.0 and +0.0 are Equal
f64_partial_cmp(p, q) ==
    IF IsNaN(p) \/ IsNaN(q) THEN None
    ELSE IF f64_lt(p, q) THEN Some("Less")
    ELSE IF f64_lt(q, p) THEN Some("Greater")
    ELSE Some("Equal")

\* Ord::cmp for F64OrdHash
F64OrdHash_cmp(a, b) ==
    LET ordering == f64_partial_cmp(from_bits(a), from_bits(b))
    IN  IF ordering = None THEN PanicAt("partial_cmp().unwrap()") ELSE Ok(ordering[1])

\* Hash for F64OrdHash feeds the hasher the key
F64OrdHash_hash(a) == key(a)

\* the bit patterns F64OrdHash is tried on: those of the inputs, -1.0 and NaN
OrdHashValues == F64Values \cup {SignBit + 1} \cup NaNBits

\* a.cmp(&b), a == b and the hashes of a and b
OrdHashCall ==
    /\ det = NoDet
    /\ \E a \in OrdHashValues, b \in OrdHashValues :
          det' = [name |-> "F64OrdHash", a |-> a, b |-> b,
                  cmp |-> F64OrdHash_cmp(a, b),
                  eq |-> F64OrdHash_eq(a, b),
                  hashes |-> <<F64OrdHash_hash(a), F64OrdHash_hash(b)>>]
    /\ UNCHANGED <<build, list, len, src, op, out, panicked>>

\* derived::min(&slice)
DerivedMinCall ==
    /\ det = NoDet
    /\ \E slice \in UNION {[1..n -> OrdHashValues] : n \in 0..MaxSamples} :
          LET r == min([i \in 1..Len(slice) |-> from_bits(slice[i])])
          IN  det' = [name |-> "derived::min", slice |-> slice,
                      panic |-> r.panic, val |-> r.val]
    /\ UNCHANGED <<build, list, len, src, op, out, panicked>>

NextOrdHash ==
    \/ OrdHashCall
    \/ DerivedMinCall

SpecOrdHash == InitDet /\ [][NextOrdHash]_vars

----------------------------------------------------------------------------
(***************************************************************************)
(* The claims                                                              *)
(***************************************************************************)
\* the list the last operation returned: the new OwnedClusterList, or the Vec
Returned == IF op.name \in {"split_start", "split_end", "optimize_values"} THEN list ELSE out

\* the 1-based index of the cluster each observation of the flat list lies in
RECURSIVE FlatClusters(_, _)
FlatClusters(l, i) ==
    IF i > Len(l) THEN <<>>
    ELSE [j \in 1..l[i][2] |-> i] \o FlatClusters(l, i + 1)

\* the two middle observations of a list of even weight, 1-based
LowerMiddle(l) == size(l) \div 2
UpperMiddle(l) == size(l) \div 2 + 1

\* a non-empty list sorted ascending with every count >= 1, given to median
MedianOf(l) ==
    /\ op.name = "MultipleList::median"
    /\ src.list = l
    /\ l # <<>>
    /\ Sorted(l)
    /\ CountsPositive(l)

\* C1: the median of a sorted list of odd total weight N is the value of the
\* observation at 0-based position (N-1)/2 of its flat expansion.
C1_MedianOdd ==
    (MedianOf(src.list) /\ size(src.list) % 2 = 1)
        => /\ ~panicked
           /\ out = f64_of(Flat(src.list)[(size(src.list) - 1) \div 2 + 1])

C1_Witness ==
    /\ MedianOf(<<Cluster(1, 1), Cluster(2, 1), Cluster(3, 1)>>)
    /\ out = F(2)

\* C2: when the two middle observations of a sorted list of even total weight lie
\* in two different clusters, the median is the mean of the two clusters' values.
C2_MedianEvenBoundary ==
    (/\ MedianOf(src.list)
     /\ size(src.list) % 2 = 0
     /\ FlatClusters(src.list, 1)[LowerMiddle(src.list)]
            # FlatClusters(src.list, 1)[UpperMiddle(src.list)])
        => /\ ~panicked
           /\ out = f64_div(f64_add(f64_of(Flat(src.list)[LowerMiddle(src.list)]),
                                    f64_of(Flat(src.list)[UpperMiddle(src.list)])), F(2))

\* C3: when the two middle observations of a sorted list of even total weight lie
\* in one cluster, the median is that cluster's value.
C3_MedianEvenInside ==
    (/\ MedianOf(src.list)
     /\ size(src.list) % 2 = 0
     /\ FlatClusters(src.list, 1)[LowerMiddle(src.list)]
            = FlatClusters(src.list, 1)[UpperMiddle(src.list)])
        => /\ ~panicked
           /\ out = f64_of(Flat(src.list)[LowerMiddle(src.list)])

\* split_start(n) or split_end(n) of a list with counts >= 1 and n within its weight
SplitOf(names) ==
    /\ op.name \in names
    /\ CountsPositive(src.list)
    /\ op.n <= size(src.list)

\* C4: split_start(n) with 0 <= n <= total weight returns the clusters, in the
\* original order, whose flat expansion is the first n observations of the input;
\* the total weight is n and the boundary cluster keeps a reduced count.
C4_SplitStartPrefix ==
    SplitOf({"split_start", "MultipleList::split_start"})
        => /\ ~panicked
           /\ Flat(Returned) = SubSeq(Flat(src.list), 1, op.n)
           /\ size(Returned) = op.n
           /\ op.name = "split_start" => len = op.n
           /\ Len(Returned) <= Len(src.list)
           /\ \A i \in 1..Len(Returned) :
                 /\ Returned[i][1] = src.list[i][1]
                 /\ Returned[i][2] <= src.list[i][2]

C4_Witness ==
    /\ SplitOf({"split_start"})
    /\ ~panicked
    /\ Len(list) = 2
    /\ list[2][2] >= 1
    /\ list[2][2] < src.list[2][2]

\* C5: ClusterList::split_end(n) with 0 <= n <= total weight returns the clusters
\* whose flat expansion is the last n observations of the input, with total
\* weight n, and its count arithmetic never goes below zero (it does not panic).
C5_SplitEndSuffix ==
    SplitOf({"split_end"})
        => /\ ~panicked
           /\ Flat(list) = SubSeq(Flat(src.list), size(src.list) - op.n + 1,
                                  size(src.list))
           /\ size(list) = op.n
           /\ len = op.n

\* C6: a summary that returns reports both quartiles exactly when the total
\* weight of its input is >= 5, and neither for a total weight of 1 to 4.
C6_QuartilesFromFive ==
    (/\ op.name \in {"percentiles_cluster", "median"}
     /\ src.list # <<>>
     /\ Sorted(src.list)
     /\ ~panicked)
        => /\ out.lower_quadrille # None <=> size(src.list) >= 5
           /\ out.higher_quadrille # None <=> size(src.list) >= 5

\* optimize_values applied to a list that optimize_values returned
OptimizedTwice == op.name = "optimize_values" /\ op.n = 1 /\ ~panicked

\* the clusters of a list, whatever their order
ClustersOf(l) == {l[i] : i \in 1..Len(l)}

\* C7 as stated: optimize_values of the result of optimize_values is the same
\* sequence of clusters with the same cached total weight.
C7_IdempotentSequence ==
    OptimizedTwice => list = src.list /\ len = src.len

\* C7 as amended: optimize_values of the result of optimize_values holds the same
\* clusters, in some order, with the same cached total weight.
C7_IdempotentClusters ==
    OptimizedTwice
        => /\ ClustersOf(list) = ClustersOf(src.list)
           /\ Len(list) = Len(src.list)
           /\ len = src.len

C7_Witness ==
    /\ OptimizedTwice
    /\ Len(list) >= 2
    /\ list # src.list

\* the sum of the counts of the clusters of l whose value has the bit pattern v
RECURSIVE CountOf(_, _, _)
CountOf(l, i, v) ==
    IF i > Len(l) THEN 0
    ELSE (IF l[i][1] = v THEN l[i][2] ELSE 0) + CountOf(l, i + 1, v)

Occurrences(l, v) == Cardinality({i \in 1..Len(l) : l[i][1] = v})

\* C8: the result of optimize_values holds exactly one cluster per bit pattern of
\* the input, its count the sum of the input's counts of that pattern; the total
\* weight is kept and +0.0 and -0.0 stay apart.
C8_OnePerBitPattern ==
    (op.name = "optimize_values" /\ ~panicked)
        => /\ \A v \in F64Values \cup {c[1] : c \in ClustersOf(src.list) \cup ClustersOf(list)} :
                 /\ Occurrences(list, v) = IF Occurrences(src.list, v) > 0 THEN 1 ELSE 0
                 /\ CountOf(list, 1, v) = CountOf(src.list, 1, v)
           /\ size(list) = size(src.list)

C8_Witness ==
    /\ op.name = "optimize_values"
    /\ ~panicked
    /\ Occurrences(src.list, PosZero) = 2
    /\ Occurrences(src.list, NegZero) = 1
    /\ Occurrences(list, PosZero) = 1
    /\ Occurrences(list, NegZero) = 1

\* the mean and the sample variance of a flat sequence of observations
FlatMean(xs) ==
    f64_div(iter_sum([i \in 1..Len(xs) |-> f64_of(xs[i])], 1), F(Len(xs)))
FlatVariance(xs) ==
    f64_div(iter_sum([i \in 1..Len(xs) |->
                        f64_mul(f64_sub(f64_of(xs[i]), FlatMean(xs)),
                                f64_sub(f64_of(xs[i]), FlatMean(xs)))], 1),
            F(Len(xs) - 1))

StandardDeviationExample ==
    <<Cluster(2, 1), Cluster(4, 1), Cluster(4, 1), Cluster(4, 1),
      Cluster(5, 1), Cluster(5, 1), Cluster(7, 1), Cluster(9, 1)>>

\* C9: for a list of total weight n >= 2 the mean is the mean of the flat
\* expansion and the standard deviation is the root of its sample variance
\* (divisor n - 1); for 2,4,4,4,5,5,7,9 the mean is 5 and the variance 32/7.
C9_MeanAndSampleVariance ==
    (/\ op.name \in {"standard_deviation_cluster", "std_dev"}
     /\ CountsPositive(src.list)
     /\ size(src.list) >= 2)
        => /\ ~panicked
           /\ out.mean = FlatMean(Flat(src.list))
           /\ out.standard_deviation = f64_sqrt(FlatVariance(Flat(src.list)))
           /\ src.list = StandardDeviationExample
                 => /\ out.mean = F(5)
                    /\ out.standard_deviation = f64_sqrt(<<32, 7>>)

C9_Witness ==
    /\ op.name = "standard_deviation_cluster"
    /\ src.list = StandardDeviationExample
    /\ ~panicked
    /\ out.mean = F(5)

\* C10: every way of computing R^2 fails when the number of predictors differs
\* from the number of outcomes, or from the stated len.
C10_MismatchFails ==
    (/\ det.name \in {"determination", "determination_slice"}
     /\ \/ Len(det.predictors) # Len(det.outcomes)
        \/ det.len # Len(det.outcomes))
        => det.panic

\* the model of the call predicts every outcome of the call exactly
PerfectFit ==
    /\ det.name \in {"determination", "determination_slice"}
    /\ Len(det.predictors) = Len(det.outcomes)
    /\ det.len = Len(det.outcomes)
    /\ Len(det.outcomes) >= 1
    /\ \A i \in 1..Len(det.outcomes) :
          predict_outcome(det.model, det.predictors[i]) = F(det.outcomes[i])

\* C11: a model that predicts every outcome exactly has R^2 = 1, also when all
\* the outcomes are equal (total sum of squares 0).
C11_PerfectFitIsOne ==
    PerfectFit => (~det.panic /\ det.r2 = F(1))

\* degree >= len in a call of ols::polynomial
DegreeTooLarge == det.name = "polynomial" /\ det.args.degree >= det.args.len

\* C12: ols::polynomial with degree >= len fails, in every build, with an
\* insufficient-data error raised before any matrix is built; it never returns
\* coefficients, and the failure is not the one of a singular matrix.
C12_InsufficientData ==
    DegreeTooLarge =>
        /\ det.panic
        /\ det.val = "degree + 1 must be less than or equal to len"

\* LinearOls::model was called on at least 2 points of the line y = k * x + m
\* that have at least two distinct predictors
FittedOnLine(k, m) ==
    /\ det.name = "LinearOls::model"
    /\ Len(det.args.predictors) >= 2
    /\ Cardinality({det.args.predictors[i] : i \in 1..Len(det.args.predictors)}) >= 2
    /\ det.args.outcomes = OnLine(det.args.predictors, k, m)

\* C13: on at least 2 points on the line y = k * x + m with at least two
\* distinct predictors LinearOls::model returns slope k and intercept m;
\* (1,2),(2,4),(3,6) gives k = 2 and m = 0.
C13_OlsRecoversLine ==
    \A k \in Slopes, m \in Intercepts :
        FittedOnLine(k, m) =>
            (~det.panic /\ det.val = LinearCoefficients(F(k), F(m)))

C13_Witness ==
    /\ FittedOnLine(2, 0)
    /\ det.args.predictors = <<1, 2, 3>>
    /\ det.args.outcomes = <<2, 4, 6>>
    /\ ~det.panic
    /\ det.val.k = F(2)
    /\ det.val.m = F(0)

\* a Theil-Sen fit was made on as many predictors as outcomes
TheilSenFitted ==
    /\ det.name \in {"slow_linear", "LinearTheilSen::model"}
    /\ Len(det.args.predictors) = Len(det.args.outcomes)

\* the fit was made on at least 5 points with pairwise distinct predictors, all
\* on y = x but for one
OneOutlier ==
    LET xs == det.args.predictors
        ys == det.args.outcomes
    IN  /\ TheilSenFitted
        /\ Len(xs) >= 5
        /\ \A i, j \in 1..Len(xs) : i # j => xs[i] # xs[j]
        /\ Cardinality({i \in 1..Len(xs) : ys[i] # xs[i]}) = 1

\* C14: on at least 5 samples with pairwise distinct predictors that lie on
\* y = x but for one outlier, slow_linear returns slope 1 wherever the outlier
\* lies.
C14_TheilSenIgnoresOutlier ==
    OneOutlier => (~det.panic /\ det.val.k = F(1))

\* the position, among the candidate slopes, of the pair i < j of n samples
PairIndex(i, j, n) == (i - 1) * n - ((i - 1) * i) \div 2 + (j - i)

\* C20: slow_linear over n samples collects one candidate slope per pair
\* i < j, n * (n - 1) / 2 in all, and the slope of the pair (i, j) is
\* (y_i - y_j) / (x_i - x_j).
C20_PairwiseSlopes ==
    TheilSenFitted =>
        LET xs == det.args.predictors
            ys == det.args.outcomes
            n == Len(xs)
        IN  /\ Len(det.slopes) = (n * (n - 1)) \div 2
            /\ \A i, j \in 1..n :
                  i < j => det.slopes[PairIndex(i, j, n)]
                              = f64_div(F(ys[i] - ys[j]), F(xs[i] - xs[j]))

\* power() was called on more than 2 samples, all predictors and all outcomes
\* at least 1
PowerFitted ==
    /\ det.name \in {"power", "power_ols"}
    /\ Len(det.args.predictors) > 2
    /\ Len(det.args.predictors) = Len(det.args.outcomes)
    /\ \A i \in 1..Len(det.args.predictors) :
          f64_ge(det.args.predictors[i], F(1)) /\ f64_ge(det.args.outcomes[i], F(1))

\* the fit of the call's linear estimator on (log2 x, log2 y)
LogLogFit ==
    estimator_model(det.args.estimator,
                    [i \in 1..Len(det.args.predictors) |-> log2(det.args.predictors[i])],
                    [i \in 1..Len(det.args.outcomes) |-> log2(det.args.outcomes[i])],
                    build)

\* C15: on more than 2 samples with all predictors >= 1 and all outcomes >= 1
\* power() returns e = the slope and k = 2^intercept of the linear estimator's
\* fit on (log2 x, log2 y), and no additive offsets; (1,2),(2,8),(4,32) with
\* the least-squares estimator gives k = 2 and e = 2.
C15_PowerBackTransform ==
    PowerFitted =>
        /\ det.panic = LogLogFit.panic
        /\ ~det.panic =>
              /\ det.val.e = LogLogFit.val.k
              /\ det.val.k = powf2(LogLogFit.val.m)
              /\ det.val.predictor_additive = None
              /\ det.val.outcome_additive = None
        /\ (/\ det.args.predictors = Floats(<<1, 2, 4>>)
            /\ det.args.outcomes = Floats(<<2, 8, 32>>)
            /\ det.args.estimator = "LinearOls")
              => (~det.panic /\ det.val.k = F(2) /\ det.val.e = F(2))

C15_Witness ==
    /\ PowerFitted
    /\ det.args.predictors = Floats(<<1, 2, 4>>)
    /\ det.args.outcomes = Floats(<<2, 8, 32>>)
    /\ det.args.estimator = "LinearOls"
    /\ ~det.panic
    /\ det.val = PowerCoefficients(F(2), F(2), None, None)

\* C16: best_fit returns a model, and never fails, on at least 3 samples whose
\* linear fit succeeds: the linear candidate is always evaluated, so the best
\* candidate is there when it is unwrapped.
C16_BestFitNeverFails ==
    (/\ det.name = "best_fit_ols"
     /\ det.args.n >= 3
     /\ ~det.args.fits.linear.panic)
        => (~det.panic /\ det.best # None)

\* best_fit was called and returned
BestFitReturned == det.name = "best_fit" /\ ~det.panic

\* the candidates the guards of best_fit let through, in the order of the code
Candidates ==
    SelectSeq(<<"power", "exponential", "degree_2", "degree_3", "linear">>,
              LAMBDA c :
                  CASE c \in {"power", "exponential"} ->
                           /\ f64_ge(det.args.predictor_min, F(1))
                           /\ f64_ge(det.args.outcomes_min, F(1))
                    [] c = "degree_2" -> det.args.n > 15
                    [] c = "degree_3" -> det.args.n > 50
                    [] OTHER -> TRUE)

Winner == CHOOSE i \in 1..Len(det.evaluated) : det.evaluated[i].model = det.val.model

\* C18: the model best_fit returns is an evaluated candidate; no evaluated
\* candidate has a weighted score strictly greater (the > of f64) than its own,
\* and no candidate evaluated before it has exactly its weighted score.
C18_HighestScoreEarliestOnTie ==
    BestFitReturned =>
        /\ \E i \in 1..Len(det.evaluated) : det.evaluated[i].model = det.val.model
        /\ \A j \in 1..Len(det.evaluated) :
              ~f64_gt(det.evaluated[j].weighted, det.evaluated[Winner].weighted)
        /\ \A j \in 1..(Winner - 1) :
              det.evaluated[j].weighted # det.evaluated[Winner].weighted

C18_Witness ==
    /\ BestFitReturned
    /\ det.val.model = "degree_2"
    /\ \E j \in 1..Len(det.evaluated) :
          /\ det.evaluated[j].model = "linear"
          /\ det.evaluated[j].weighted = det.evaluated[Winner].weighted
          /\ ~IsNaN(det.evaluated[j].weighted)

\* C19: best_fit hands its caller the winning model together with the R^2 of
\* that model before any multiplier or penalty.
C19_ModelWithRawRSquared ==
    BestFitReturned =>
        \E i \in 1..Len(det.evaluated) :
            det.val = [model |-> det.evaluated[i].model, r2 |-> det.evaluated[i].e]

\* the entry of a candidate among the evaluated ones
EvaluatedAs(c) ==
    CHOOSE i \in 1..Len(det.evaluated) : det.evaluated[i].model = c
IsEvaluated(c) ==
    BestFitReturned /\ \E i \in 1..Len(det.evaluated) : det.evaluated[i].model = c

\* the exponent is less than 0.15 away from an integer
NearInteger(e) ==
    LET fraction == e[1] % e[2]
    IN  20 * Min(fraction, e[2] - fraction) < 3 * e[2]

\* the multiplier of R^2 above the thresholds 0.8 and 0.92
ThresholdFactor(certainty) ==
    IF f64_gt(certainty, Rat(23, 25)) THEN Rat(169, 100)
    ELSE IF f64_gt(certainty, Rat(4, 5)) THEN Rat(13, 10)
    ELSE F(1)

\* C21: the score of the power candidate holds the factor 1.5 iff its exponent
\* e is less than 0.15 away from an integer, for negative e as for positive e.
C21_PowerBumpNearInteger ==
    IsEvaluated("power") /\ IsFinite(det.args.fits.power.certainty) =>
        LET fit == det.args.fits.power
            plain == f64_mul(fit.certainty, ThresholdFactor(fit.certainty))
        IN  det.evaluated[EvaluatedAs("power")].weighted =
                IF NearInteger(fit.e) THEN f64_mul(plain, Rat(3, 2)) ELSE plain

\* the same for exponents that are not negative
C21_PositiveExponents ==
    IsEvaluated("power") /\ IsFinite(det.args.fits.power.certainty)
        /\ det.args.fits.power.e[1] >= 0 => C21_PowerBumpNearInteger

\* the weighted scores a candidate of R^2 e may have
ScoresOf(c, e) ==
    CASE c = "exponential" -> {f64_mul(e, ThresholdFactor(e))}
      [] c = "power" -> {f64_mul(e, ThresholdFactor(e)),
                         f64_mul(e, f64_mul(ThresholdFactor(e), Rat(3, 2)))}
      [] c = "degree_3" -> {f64_mul(e, Rat(47, 50))}
      [] c = "degree_2" -> {e}
      [] OTHER -> {f64_add(e, F(0))}

\* C22: the weighted score of every candidate is the R^2 of its model on the
\* samples times its multiplier: 1, 1.3 or 1.69 for the exponential model as
\* R^2 is at most 0.8, at most 0.92 or above, the same times 1 or 1.5 for the
\* power model, 0.94 for degree 3, 1 for degree 2, and R^2 + 0 for the line.
C22_WeightedScores ==
    BestFitReturned =>
        \A i \in 1..Len(det.evaluated) :
            LET candidate == det.evaluated[i]
            IN  /\ candidate.e = det.args.fits[candidate.model].certainty
                /\ candidate.weighted \in ScoresOf(candidate.model, candidate.e)

C22_Witness ==
    /\ BestFitReturned
    /\ Len(det.evaluated) = 5
    /\ det.evaluated[1].e = Rat(17, 20)
    /\ det.evaluated[1].weighted = f64_mul(Rat(17, 20), Rat(39, 20))
    /\ det.evaluated[2].e = Rat(19, 20)
    /\ det.evaluated[2].weighted = f64_mul(Rat(19, 20), Rat(169, 100))
    /\ det.evaluated[4].weighted = f64_mul(Rat(1, 2), Rat(47, 50))

\* power() or exponential() was called and went on to offset its slices
OffsetsAdded ==
    /\ det.name \in {"power", "power_ols", "exponential"}
    /\ Len(det.logarithms_of) > 0

\* the least value of a slice that holds no NaN
LeastOf(values) ==
    CHOOSE v \in {values[i] : i \in 1..Len(values)} :
        \A i \in 1..Len(values) : ~f64_lt(values[i], v)

\* the offset the fits are to add to a slice of the given least value
OffsetFor(least_value) ==
    IF f64_lt(least_value, F(1)) THEN Some(f64_sub(F(1), least_value)) ELSE None

\* C23: power() and exponential() offset the predictors by 1 - min(x) iff
\* min(x) < 1 and the outcomes by 1 - min(y) iff min(y) < 1, and every value
\* whose logarithm they take is at least 1 after that.
C23_OffsetsKeepLogsDefined ==
    OffsetsAdded =>
        /\ ~det.panic =>
              /\ det.val.predictor_additive = OffsetFor(LeastOf(det.args.predictors))
              /\ det.val.outcome_additive = OffsetFor(LeastOf(det.args.outcomes))
        /\ \A i \in 1..Len(det.logarithms_of) : f64_ge(det.logarithms_of[i], F(1))

\* the same on samples that are all finite
C23_FiniteSamples ==
    (/\ OffsetsAdded
     /\ \A i \in 1..Len(det.args.predictors) : IsFinite(det.args.predictors[i])
     /\ \A i \in 1..Len(det.args.outcomes) : IsFinite(det.args.outcomes[i]))
        => C23_OffsetsKeepLogsDefined

\* ols::polynomial was called with len >= 1, degree < len and exactly len
\* predictors
DesignBuilt ==
    /\ det.name = "polynomial"
    /\ det.args.len >= 1
    /\ det.args.degree < det.args.len
    /\ Len(det.args.predictors) = det.args.len

\* C24: for len >= 1, degree < len and exactly len predictors the design matrix
\* of ols::polynomial has len rows and degree + 1 columns and holds x_i^j at
\* row i, column j (counted from 0); the one predictor iterator the closure
\* reads from is cloned anew at row 0 of every column j >= 2 and never runs
\* out of predictors.
C24_DesignMatrix ==
    DesignBuilt =>
        /\ det.design # None
        /\ ~det.design[1].panic
        /\ det.design[1].val.nrows = det.args.len
        /\ det.design[1].val.ncols = det.args.degree + 1
        /\ \A i \in 1..det.args.len, j \in 0..det.args.degree :
              det.design[1].val.at[i, j + 1] = powi(F(det.args.predictors[i]), j)

C24_Witness ==
    /\ DesignBuilt
    /\ det.args.predictors = <<1, 2, 0>>
    /\ det.args.degree = 2
    /\ ~det.design[1].panic
    /\ det.design[1].val.at[2, 3] = F(4)
    /\ det.design[1].val.at[1, 3] = F(1)

\* C25: the cmp of F64OrdHash is defined for every pair of values, NaN
\* included, and is Equal iff the two are ==, which is iff they have the same
\* bit pattern and then the same hash; +0.0 and -0.0 are neither == nor Equal.
C25_TotalOrderAgreesWithEq ==
    det.name = "F64OrdHash" =>
        /\ ~det.cmp.panic
        /\ (det.cmp.val = "Equal") <=> det.eq
        /\ det.eq <=> (det.a = det.b)
        /\ det.eq => (det.hashes[1] = det.hashes[2])

\* the part of it that is about == and the hash
C25_EqIsBitPattern ==
    det.name = "F64OrdHash" =>
        /\ det.eq <=> (det.a = det.b)
        /\ det.eq => (det.hashes[1] = det.hashes[2])
        /\ ({det.a, det.b} = {PosZero, NegZero}) => ~det.eq

\* the values median may return for the list: a value of a cluster, or the mean
\* of the values of two clusters
MedianValues(l) ==
    {f64_of(l[i][1]) : i \in 1..Len(l)}
    \cup {f64_div(f64_add(f64_of(l[i][1]), f64_of(l[j][1])), F(2)) :
            i \in 1..Len(l), j \in 1..Len(l)}

\* C26: on a non-empty list sorted ascending with counts >= 1 median returns a
\* value of the list or the mean of two of them; it never takes the averaging
\* branch, which reads the cluster at pos - 1, at the first cluster.
C26_NoReadBeforeFirst ==
    MedianOf(src.list) => (~panicked /\ out \in MedianValues(src.list))

\* C27: when every cluster of the input has count >= 1, every cluster of the
\* list that split_start(n), split_end(n), for 0 <= n <= total weight, or
\* optimize_values returns has count >= 1.
C27_NoEmptyCluster ==
    (/\ \/ SplitOf({"split_start", "split_end", "MultipleList::split_start",
                    "MultipleList::split_end"})
        \/ op.name = "optimize_values" /\ CountsPositive(src.list)
     /\ ~panicked)
        => CountsPositive(Returned)

\* the same for optimize_values, and for the splits with n >= 1
C27_FromOneOn ==
    (/\ \/ SplitOf({"split_start", "split_end", "MultipleList::split_start",
                    "MultipleList::split_end"}) /\ op.n >= 1
        \/ op.name = "optimize_values" /\ CountsPositive(src.list)
     /\ ~panicked)
        => CountsPositive(Returned)

\* C28: after any sequence of new, borrow, split_start(n), split_end(n) and
\* optimize_values, for any n, len() of the list is the sum of the counts of its
\* clusters, and is_empty() is true exactly when len() is 0.
C28_CachedLength ==
    ~panicked =>
        /\ ClusterList_len(Self) = size(list)
        /\ ClusterList_is_empty(Self) <=> (ClusterList_len(Self) = 0)

\* the cached length of the lists a debug build returns
C28_CachedLengthDebug ==
    (~panicked /\ build = "debug") => ClusterList_len(Self) = size(list)

\* best_fit has handed its scratch vectors to the exponential fit
HandedToExponential == det.name = "best_fit" /\ Len(det.handed) = 2

\* C29: when best_fit fits both the power and the exponential model, the
\* scratch vectors it hands the exponential fit hold the predictors and the
\* outcomes it was called with, not the logarithms the power fit left in them;
\* and the slices of the caller are the same at every step of the call.
C29_ScratchRestored ==
    /\ HandedToExponential =>
            /\ det.handed[2].predictors = det.args.predictors
            /\ det.handed[2].outcomes = det.args.outcomes
    /\ det.name = "best_fit" =>
            /\ det.predictors = det.args.predictors
            /\ det.outcomes = det.args.outcomes

C29_Witness ==
    /\ BestFitAt("returned")
    /\ HandedToExponential
    /\ det.args.predictors = Floats(<<1, 2, 4>>)
    /\ det.left[1].predictors = Floats(<<0, 1, 2>>)
    /\ det.left[1].outcomes # det.args.outcomes
    /\ det.handed[2].predictors = Floats(<<1, 2, 4>>)
    /\ Len(det.st.evaluated) = 3

\* the multiplier best_fit gave candidate c of R^2 e
MultiplierOf(c, e) ==
    CASE c = "power" -> power_bump(det.args.fits.power.e, e)
      [] c = "exponential" -> exponential_bump(e)
      [] c = "degree_3" -> THIRD_DEGREE_DISADVANTAGE
      [] OTHER -> F(1)

\* candidate c of R^2 e and the given weighted score was not lowered by a
\* bump, and not raised by the penalty of degree 3
NeverAgainst(c, e, weighted) ==
    /\ c \in {"power", "exponential"} /\ f64_gt(MultiplierOf(c, e), F(1)) =>
            f64_ge(weighted, e)
    /\ c = "degree_3" => f64_ge(e, weighted)

\* C30: in best_fit a bump never lowers and the penalty never raises a score:
\* for every R^2 that is a number, negative ones included, a power or an
\* exponential candidate with a multiplier above 1 has a weighted score >= its
\* R^2, and the candidate of degree 3 has a weighted score <= its R^2.
C30_BumpNeverLowers ==
    BestFitReturned =>
        \A i \in 1..Len(det.evaluated) :
            ~IsNaN(det.evaluated[i].e) =>
                NeverAgainst(det.evaluated[i].model, det.evaluated[i].e,
                             det.evaluated[i].weighted)

\* the same for the R^2 that are not negative
C30_NotNegative ==
    BestFitReturned =>
        \A i \in 1..Len(det.evaluated) :
            f64_ge(det.evaluated[i].e, F(0)) =>
                NeverAgainst(det.evaluated[i].model, det.evaluated[i].e,
                             det.evaluated[i].weighted)

====
